---- MODULE Spec2Model ----
(***************************************************************************)
(* A model of lab_cli (pacorain/mono): the template resolver, the service  *)
(* loader, the size parsers, the credentials, the container mapper, the    *)
(* deployer and the command line; and of the instance patrol.              *)
(*                                                                         *)
(* Python strings are modelled as sequences of one-character strings, so   *)
(* that lower-casing, glob matching, splitting, sorting, formatting and    *)
(* integer parsing are computed character by character as the code does.   *)
(***************************************************************************)
EXTENDS Integers, Sequences, FiniteSets, TLC

VARIABLES
    remote,      \* the Proxmox storage endpoints: (node, storage) -> HTTP response
    cache,       \* the caller-supplied _cache dict of resolve_template_cached
    calls,       \* number of list_templates calls made per (node, storage)
    rtResult,    \* outcome of the last template resolver call
    fs,          \* the services base path: its kind and its entries
    opened,      \* number of open() calls made by the last load_service
    ldResult,    \* outcome of the last service loader call
    sizeOf,      \* how the size string was written: number, unit, padding
    sizeStr,     \* the size string handed to the size parsers
    szResult,    \* outcome of the last size parser call
    config,      \* homelab/config.yaml: whether it loads, and its mappings
    configCache, \* the lru_cache of _load_config: None or the parsed dict
    tool,        \* the 1Password CLI: "ok", "fails" (non-zero exit), "missing"
    opReads,     \* the `op read` subprocesses run so far, oldest first
    crResult,    \* outcome of the last credentials call
    instances,   \* the EC2 fleet: instance id -> state and ExpireAt tag
    now,         \* datetime.now(timezone.utc), in hours
    ptResult,    \* outcome of the last instance-patrol sweep
    stacks,      \* the Pulumi backend: stack name -> resources recorded
    cli,         \* the running or last lab_cli process
    invoked,     \* the deployer calls the process made so far, oldest first
    mpProps,     \* the ContainerProperties handed to the container mapper
    mpResult     \* what the last builder of the container mapper returned

vars ==
    <<remote, cache, calls, rtResult, fs, opened, ldResult, sizeOf, sizeStr,
      szResult, config, configCache, tool, opReads, crResult, instances,
      now, ptResult, stacks, cli, invoked, mpProps, mpResult>>

resolverVars == <<remote, cache, calls, rtResult>>
loaderVars == <<fs, opened, ldResult>>
sizeVars == <<sizeOf, sizeStr, szResult>>
credVars == <<config, configCache, tool, opReads, crResult>>
\* the variables outside the resolver, the loader and the size parsers
patrolVars == <<instances, now, ptResult>>
cliVars == <<stacks, cli, invoked>>
mapperVars == <<mpProps, mpResult>>
restVars == <<credVars, patrolVars, cliVars, mapperVars>>

----------------------------------------------------------------------------
(* Bounds of the model *)

\* longest resources list of a service.yaml
MaxResources == 2
\* longest inventory (number of items in the JSON "data" list)
MaxInv == 6
\* cap on the list_templates call counter per key
MaxCalls == 2
\* largest number written in a size string
MaxSize == 2060
\* most network interfaces of a container
MaxInterfaces == 2

----------------------------------------------------------------------------
(* Python str primitives *)

\* ord(c) for the characters that occur in template file names
Ord ==
    ("-" :> 45) @@ ("." :> 46) @@ ("/" :> 47) @@ ("1" :> 49) @@ ("2" :> 50)
    @@ ("3" :> 51) @@ (":" :> 58) @@ ("A" :> 65) @@ ("B" :> 66) @@ ("a" :> 97)
    @@ ("b" :> 98) @@ ("l" :> 108) @@ ("t" :> 116) @@ ("v" :> 118)

\* str.lower() on one character (ASCII letters of the model's alphabet)
LowerChar(c) ==
    CASE c = "A" -> "a"
      [] c = "B" -> "b"
      [] c = "G" -> "g"
      [] c = "M" -> "m"
      [] c = "T" -> "t"
      [] OTHER -> c

\* str.upper() on one character
UpperChar(c) ==
    CASE c = "a" -> "A"
      [] c = "b" -> "B"
      [] c = "g" -> "G"
      [] c = "m" -> "M"
      [] c = "t" -> "T"
      [] OTHER -> c

\* str.lower()
Lower(s) == [i \in 1..Len(s) |-> LowerChar(s[i])]

\* str.upper()
Upper(s) == [i \in 1..Len(s) |-> UpperChar(s[i])]

\* Python's str < str: code point order, a proper prefix is smaller
RECURSIVE StrLess(_, _)
StrLess(a, b) ==
    IF b = <<>> THEN FALSE
    ELSE IF a = <<>> THEN TRUE
    ELSE IF a[1] # b[1] THEN Ord[a[1]] < Ord[b[1]]
    ELSE StrLess(Tail(a), Tail(b))

StrLeq(a, b) == a = b \/ StrLess(a, b)

\* insert x into the sorted list s, after the elements that are not greater
RECURSIVE Insert(_, _)
Insert(x, s) ==
    IF s = <<>> THEN <<x>>
    ELSE IF StrLess(x, s[1]) THEN <<x>> \o s
    ELSE <<s[1]>> \o Insert(x, Tail(s))

\* sorted(list of str)
RECURSIVE Sorted(_)
Sorted(s) ==
    IF s = <<>> THEN <<>>
    ELSE Insert(s[Len(s)], Sorted(SubSeq(s, 1, Len(s) - 1)))

\* "/" in volid
HasSlash(s) == \E i \in 1..Len(s) : s[i] = "/"

\* volid.split("/")[-1]: the text after the last "/"
SplitLast(s) ==
    IF HasSlash(s)
    THEN LET last == CHOOSE i \in 1..Len(s) :
                        s[i] = "/" /\ \A j \in (i + 1)..Len(s) : s[j] # "/"
         IN SubSeq(s, last + 1, Len(s))
    ELSE s

\* fnmatch.fnmatchcase(name, pat) for patterns made of literals, "*" and "?"
RECURSIVE fnmatchcase(_, _)
fnmatchcase(name, pat) ==
    IF pat = <<>> THEN name = <<>>
    ELSE IF pat[1] = "*"
         THEN fnmatchcase(name, Tail(pat))
              \/ (name # <<>> /\ fnmatchcase(Tail(name), pat))
    ELSE IF pat[1] = "?"
         THEN name # <<>> /\ fnmatchcase(Tail(name), Tail(pat))
    ELSE name # <<>> /\ name[1] = pat[1] /\ fnmatchcase(Tail(name), Tail(pat))

\* the filter of resolve_template: fnmatch.fnmatch(t.lower(), pattern.lower())
Matches(t, pattern) == fnmatchcase(Lower(t), Lower(pattern))

\* [t for t in templates if fnmatch(...)]
RECURSIVE FilterMatches(_, _)
FilterMatches(templates, pattern) ==
    IF templates = <<>> THEN <<>>
    ELSE (IF Matches(templates[1], pattern) THEN <<templates[1]>> ELSE <<>>)
         \o FilterMatches(Tail(templates), pattern)

\* str(n) for n >= 0
RECURSIVE IntToStr(_)
IntToStr(n) ==
    LET digit == <<"0", "1", "2", "3", "4", "5", "6", "7", "8", "9">>
    IN IF n < 10 THEN <<digit[n + 1]>>
       ELSE IntToStr(n \div 10) \o <<digit[(n % 10) + 1]>>

\* sep.join(list)
RECURSIVE Join(_, _)
Join(sep, list) ==
    IF list = <<>> THEN <<>>
    ELSE IF Len(list) = 1 THEN list[1]
    ELSE list[1] \o sep \o Join(sep, Tail(list))

\* list[:n]
Take(list, n) == SubSeq(list, 1, IF Len(list) < n THEN Len(list) ELSE n)

----------------------------------------------------------------------------
(* Template resolver: template_resolver.py *)

Str_local == <<"l", "o", "c", "a", "l">>
Str_nas == <<"n", "a", "s">>
Str_vztmpl == <<":", "v", "z", "t", "m", "p", "l", "/">>
Str_none == <<"n", "o", "n", "e">>
Str_comma == <<",", " ">>
Str_dots == <<",", " ", ".", ".", ".", " ", "(">>
Str_total == <<" ", "t", "o", "t", "a", "l", ")">>

\* template file names
File_a1 == <<"a", "-", "1">>
File_A3 == <<"A", "-", "3">>
File_b1 == <<"b", "-", "1">>

\* volid values of the items of the JSON "data" list, in the Proxmox format
\* "<storage>:vztmpl/<file name>" with a non-empty file name; <<>> is an item
\* without a volid (item.get("volid", "")), which has no "/"
Vol_a1 == Str_local \o Str_vztmpl \o File_a1
Vol_A3 == Str_local \o Str_vztmpl \o File_A3
Vol_b1 == Str_nas \o Str_vztmpl \o File_b1
Volids == {Vol_a1, Vol_A3, Vol_b1, <<>>}

\* glob patterns asked for
Patterns ==
    { <<"a", "-", "*">>, <<"A", "-", "?">>, <<"*">>, <<"b", "*", "1">>,
      <<"a", "-", "2">> }

\* patterns and endpoint responses of the cache model
CachePatterns == { <<"a", "-", "*">>, <<"b", "*", "1">> }
CacheResponses ==
    { [kind |-> "urlerror", data |-> <<>>],
      [kind |-> "ok", data |-> <<Vol_b1, Vol_a1>>],
      [kind |-> "ok", data |-> <<Vol_A3>>] }

\* the (node, storage) pairs queried
Keys ==
    { <<"rainbow-road", Str_local>>, <<"rainbow-road", Str_nas>>,
      <<"moo-moo-farm", Str_local>> }

\* HTTP responses of the storage content endpoint
UrlError == [kind |-> "urlerror", data |-> <<>>]
OkResponse(data) == [kind |-> "ok", data |-> data]

RECURSIVE SeqsUpTo(_, _)
SeqsUpTo(S, n) ==
    IF n = 0 THEN {<<>>}
    ELSE LET shorter == SeqsUpTo(S, n - 1)
         IN shorter \cup {Append(s, x) : s \in {t \in shorter : Len(t) = n - 1}, x \in S}

Inventories == SeqsUpTo(Volids, MaxInv)

\* the loop of list_templates over result["data"]
RECURSIVE ExtractTemplates(_)
ExtractTemplates(data) ==
    IF data = <<>> THEN <<>>
    ELSE (IF HasSlash(data[1]) THEN <<SplitLast(data[1])>> ELSE <<>>)
         \o ExtractTemplates(Tail(data))

\* JSON values as json.loads builds them: None, int, str, list, dict
JNull == [type |-> "null", val |-> <<>>]
JNum(n) == [type |-> "number", val |-> n]
JStr(s) == [type |-> "string", val |-> s]
JList(items) == [type |-> "list", val |-> items]
JObj(members) == [type |-> "object", val |-> members]
NoMembers == [k \in {} |-> JNull]

\* dict.get(key, default)
DictGet(members, key, default) ==
    IF key \in DOMAIN members THEN members[key] ELSE default

\* what list_templates returned or raised
Listed(templates) ==
    [ok |-> TRUE, exc |-> "none", error |-> "none", templates |-> templates]
ListRaise(exc, error) ==
    [ok |-> FALSE, exc |-> exc, error |-> error, templates |-> <<>>]

\* one round of the loop of list_templates on a parsed item: the template
\* names it appends, or the exception it raises
ExtractItem(item) ==
    LET volid == DictGet(item.val, "volid", JStr(<<>>))
    IN IF item.type # "object"
       THEN ListRaise("AttributeError", "object has no attribute 'get'")
       ELSE CASE volid.type = "string" ->
                    Listed(IF HasSlash(volid.val) THEN <<SplitLast(volid.val)>>
                           ELSE <<>>)
              [] volid.type \in {"null", "number"} ->
                    ListRaise("TypeError", "argument is not iterable")
              [] volid.type = "list" ->
                    IF \E i \in 1..Len(volid.val) : volid.val[i] = JStr(<<"/">>)
                    THEN ListRaise("AttributeError",
                                   "object has no attribute 'split'")
                    ELSE Listed(<<>>)
              [] volid.type = "object" ->
                    IF "/" \in DOMAIN volid.val
                    THEN ListRaise("AttributeError",
                                   "object has no attribute 'split'")
                    ELSE Listed(<<>>)

\* the loop of list_templates over a parsed list of items
RECURSIVE ExtractItems(_)
ExtractItems(items) ==
    IF items = <<>> THEN Listed(<<>>)
    ELSE LET first == ExtractItem(items[1])
             rest == ExtractItems(Tail(items))
         IN IF ~first.ok THEN first
            ELSE IF ~rest.ok THEN rest
            ELSE Listed(first.templates \o rest.templates)

\* list_templates from json.loads on: result.get("data", []), the loop,
\* sorted(templates)
ListBody(result) ==
    LET data == DictGet(result.val, "data", JList(<<>>))
        extracted == ExtractItems(data.val)
    IN IF result.type # "object"
       THEN ListRaise("AttributeError", "object has no attribute 'get'")
       ELSE CASE data.type \in {"null", "number"} ->
                    ListRaise("TypeError", "object is not iterable")
              [] data.type = "string" ->
                    IF data.val = <<>> THEN Listed(<<>>)
                    ELSE ListRaise("AttributeError",
                                   "'str' object has no attribute 'get'")
              [] data.type = "object" ->
                    IF DOMAIN data.val = {} THEN Listed(<<>>)
                    ELSE ListRaise("AttributeError",
                                   "'str' object has no attribute 'get'")
              [] data.type = "list" ->
                    IF extracted.ok THEN Listed(Sorted(extracted.templates))
                    ELSE extracted

\* list_templates(credentials, node, storage) against the endpoint state rem.
\* A response of kind "ok" is a JSON object whose "data" is a list of objects,
\* given by the volid of each ("" for an item without volid); a response of
\* kind "json" is any JSON document, given in the field body.
list_templates(rem, key) ==
    LET response == rem[key]
    IN CASE response.kind = "ok" ->
               Listed(Sorted(ExtractTemplates(response.data)))
         [] response.kind \in {"urlerror", "httperror"} ->
               ListRaise("TemplateResolverError", "Failed to list templates")
         [] response.kind = "notjson" ->
               ListRaise("TemplateResolverError",
                         "Unexpected response from Proxmox storage endpoint")
         [] response.kind = "notutf8" ->
               ListRaise("UnicodeDecodeError", "invalid start byte")
         [] response.kind = "json" -> ListBody(response.body)

NoResult ==
    [op |-> "none", key |-> <<"", <<>>>>, pattern |-> <<>>, outcome |-> "none",
     value |-> <<>>, error |-> "none", available |-> <<>>, templates |-> <<>>,
     fetched |-> FALSE]

\* the exception of list_templates leaving the caller: for an unreachable
\* endpoint, raise TemplateResolverError(f"Failed to list templates: {e}")
ListFailed(op, key, pattern) ==
    [op |-> op, key |-> key, pattern |-> pattern,
     outcome |-> list_templates(remote, key).exc, value |-> <<>>,
     error |-> list_templates(remote, key).error, available |-> <<>>,
     templates |-> <<>>, fetched |-> TRUE]

\* list_templates called on its own
ListTemplates ==
    /\ \E key \in Keys :
          LET listed == list_templates(remote, key)
          IN rtResult' =
                IF listed.ok
                THEN [op |-> "list_templates", key |-> key, pattern |-> <<>>,
                      outcome |-> "return", value |-> <<>>, error |-> "none",
                      available |-> <<>>, templates |-> listed.templates,
                      fetched |-> TRUE]
                ELSE ListFailed("list_templates", key, <<>>)
    /\ UNCHANGED <<remote, cache, calls, loaderVars, sizeVars, restVars>>

\* the parsed item {"volid": volid} of a storage content listing
Item(volid) == JObj([volid |-> JStr(volid)])

\* JSON documents the endpoint may answer with: well-formed listings, and
\* bodies that are not an object, whose "data" is not a list, whose items are
\* not objects or whose volid is not a string
Bodies ==
    { JObj([data |-> JList(<<Item(Vol_a1), Item(Vol_b1)>>)]),
      JObj([data |-> JList(<<Item(Vol_A3), JObj(NoMembers)>>)]),
      JObj([data |-> JList(<<>>)]),
      JObj(NoMembers),
      JList(<<>>), JList(<<Item(Vol_a1)>>), JStr(Vol_a1), JNum(1), JNull,
      JObj([data |-> JNull]), JObj([data |-> JNum(1)]),
      JObj([data |-> JStr(<<>>)]), JObj([data |-> JStr(Vol_a1)]),
      JObj([data |-> JObj(NoMembers)]), JObj([data |-> Item(Vol_a1)]),
      JObj([data |-> JList(<<Item(Vol_a1), JNull>>)]),
      JObj([data |-> JList(<<JStr(Vol_a1), Item(Vol_a1)>>)]),
      JObj([data |-> JList(<<JNum(1)>>)]),
      JObj([data |-> JList(<<JList(<<>>)>>)]),
      JObj([data |-> JList(<<JObj([volid |-> JNull])>>)]),
      JObj([data |-> JList(<<Item(Vol_a1), JObj([volid |-> JNum(1)])>>)]) }

\* the responses of the listing model: a failed request, a body that does
\* not decode or parse, or a JSON document
ListingResponses ==
    [kind : {"urlerror", "httperror", "notjson", "notutf8"}, data : {<<>>},
     body : {JNull}]
    \cup [kind : {"json"}, data : {<<>>}, body : Bodies]

\* the text after "Available templates: " in the no-match message
AvailableFirstFour(templates) ==
    LET available == Join(Str_comma, Take(templates, 4))
                     \o (IF Len(templates) > 5
                         THEN Str_dots \o IntToStr(Len(templates)) \o Str_total
                         ELSE <<>>)
    IN IF available # <<>> THEN available ELSE Str_none
Available(templates) ==
    LET available == Join(Str_comma, Take(templates, 5))
                     \o (IF Len(templates) > 5
                         THEN Str_dots \o IntToStr(Len(templates)) \o Str_total
                         ELSE <<>>)
    IN IF available # <<>> THEN available ELSE Str_none

\* the body of resolve_template after the listing was fetched
SelectFirst(op, key, pattern, templates) ==
    LET matches == FilterMatches(templates, pattern)
    IN IF matches = <<>>
       THEN [op |-> op, key |-> key, pattern |-> pattern,
             outcome |-> "TemplateResolverError", value |-> <<>>,
             error |-> "No template matching pattern",
             available |-> Available(templates), templates |-> templates,
             fetched |-> TRUE]
       ELSE [op |-> op, key |-> key, pattern |-> pattern,
             outcome |-> "return",
             value |-> key[2] \o Str_vztmpl \o matches[1],
             error |-> "none", available |-> <<>>, templates |-> templates,
             fetched |-> TRUE]
Select(op, key, pattern, templates) ==
    LET matches == FilterMatches(templates, pattern)
    IN IF matches = <<>>
       THEN [op |-> op, key |-> key, pattern |-> pattern,
             outcome |-> "TemplateResolverError", value |-> <<>>,
             error |-> "No template matching pattern",
             available |-> Available(templates), templates |-> templates,
             fetched |-> TRUE]
       ELSE [op |-> op, key |-> key, pattern |-> pattern,
             outcome |-> "return",
             value |-> key[2] \o Str_vztmpl \o matches[Len(matches)],
             error |-> "none", available |-> <<>>, templates |-> templates,
             fetched |-> TRUE]

\* resolve_template(pattern, credentials, node, storage)
resolve_template(pattern, key) ==
    LET listed == list_templates(remote, key)
    IN /\ rtResult' = IF listed.ok
                      THEN Select("resolve_template", key, pattern, listed.templates)
                      ELSE ListFailed("resolve_template", key, pattern)
       /\ UNCHANGED <<remote, cache, calls>>

ResolveTemplate ==
    /\ \E pattern \in Patterns, key \in Keys : resolve_template(pattern, key)
    /\ UNCHANGED <<loaderVars, sizeVars, restVars>>

\* cache_key = (node, storage)
cache_key(key) == key

\* _cache[cache_key] = value
CachePut(c, ck, listing) ==
    [k \in DOMAIN c \cup {ck} |-> IF k = ck THEN listing ELSE c[k]]

\* count one more call of list_templates for key
CountCall(key) == calls' = [calls EXCEPT ![key] = @ + 1]

\* a cached resolver that stores an empty listing when the fetch fails
resolve_template_cached_caches_failure(pattern, key) ==
    LET ck == cache_key(key)
        listed == list_templates(remote, key)
    IN IF ck \notin DOMAIN cache
       THEN /\ calls[key] < MaxCalls
            /\ CountCall(key)
            /\ IF listed.ok
               THEN /\ cache' = CachePut(cache, ck, listed.templates)
                    /\ rtResult' = Select("resolve_template_cached", key, pattern,
                                          listed.templates)
               ELSE /\ cache' = CachePut(cache, ck, <<>>)
                    /\ rtResult' = ListFailed("resolve_template_cached", key,
                                              pattern)
            /\ UNCHANGED remote
       ELSE /\ rtResult' = [Select("resolve_template_cached", key, pattern,
                                   cache[ck]) EXCEPT !.fetched = FALSE]
            /\ UNCHANGED <<remote, cache, calls>>

\* a cached resolver that answers a cache hit with the first match
resolve_template_cached_first_on_hit(pattern, key) ==
    LET ck == cache_key(key)
        listed == list_templates(remote, key)
    IN IF ck \notin DOMAIN cache
       THEN /\ calls[key] < MaxCalls
            /\ CountCall(key)
            /\ IF listed.ok
               THEN /\ cache' = CachePut(cache, ck, listed.templates)
                    /\ rtResult' = Select("resolve_template_cached", key, pattern,
                                          listed.templates)
               ELSE /\ cache' = cache
                    /\ rtResult' = ListFailed("resolve_template_cached", key,
                                              pattern)
            /\ UNCHANGED remote
       ELSE /\ rtResult' = [SelectFirst("resolve_template_cached", key, pattern,
                                        cache[ck]) EXCEPT !.fetched = FALSE]
            /\ UNCHANGED <<remote, cache, calls>>

\* resolve_template_cached(pattern, credentials, node, storage, _cache),
\* every call sharing the dict held in the variable cache
resolve_template_cached_refetch(pattern, key) ==
    LET listed == list_templates(remote, key)
    IN /\ calls[key] < MaxCalls
       /\ CountCall(key)
       /\ IF listed.ok
          THEN /\ cache' = CachePut(cache, cache_key(key), listed.templates)
               /\ rtResult' = Select("resolve_template_cached", key, pattern,
                                     listed.templates)
          ELSE /\ cache' = cache
               /\ rtResult' = ListFailed("resolve_template_cached", key, pattern)
       /\ UNCHANGED remote
resolve_template_cached(pattern, key) ==
    LET ck == cache_key(key)
        listed == list_templates(remote, key)
    IN IF ck \notin DOMAIN cache
       THEN /\ calls[key] < MaxCalls
            /\ CountCall(key)
            /\ IF listed.ok
               THEN /\ cache' = CachePut(cache, ck, listed.templates)
                    /\ rtResult' = Select("resolve_template_cached", key, pattern,
                                          listed.templates)
               ELSE /\ cache' = cache
                    /\ rtResult' = ListFailed("resolve_template_cached", key,
                                              pattern)
            /\ UNCHANGED remote
       ELSE /\ rtResult' = [Select("resolve_template_cached", key, pattern,
                                   cache[ck]) EXCEPT !.fetched = FALSE]
            /\ UNCHANGED <<remote, cache, calls>>

ResolveTemplateCached ==
    /\ \E pattern \in CachePatterns, key \in Keys :
          resolve_template_cached(pattern, key)
    /\ UNCHANGED <<loaderVars, sizeVars, restVars>>

\* the inventory of an endpoint changes, or the endpoint goes down or comes up
RemoteChange ==
    /\ \E key \in Keys, resp \in CacheResponses :
          /\ remote[key] # resp
          /\ remote' = [remote EXCEPT ![key] = resp]
    /\ UNCHANGED <<cache, calls, rtResult, loaderVars, sizeVars, restVars>>

----------------------------------------------------------------------------
(* Size parsers: service_loader.py *)

\* str.isspace() on one character
IsSpace(c) == c \in {" ", "\n", "\t"}
IsDigit(c) == c \in {"0", "1", "2", "3", "4", "5", "6", "7", "8", "9"}

DigitValue(c) ==
    CASE c = "0" -> 0 [] c = "1" -> 1 [] c = "2" -> 2 [] c = "3" -> 3
      [] c = "4" -> 4 [] c = "5" -> 5 [] c = "6" -> 6 [] c = "7" -> 7
      [] c = "8" -> 8 [] c = "9" -> 9

\* str.lstrip() and str.rstrip() and str.strip()
RECURSIVE LStrip(_)
LStrip(s) == IF s # <<>> /\ IsSpace(s[1]) THEN LStrip(Tail(s)) ELSE s
RECURSIVE RStrip(_)
RStrip(s) ==
    IF s # <<>> /\ IsSpace(s[Len(s)]) THEN RStrip(SubSeq(s, 1, Len(s) - 1)) ELSE s
Strip(s) == RStrip(LStrip(s))

\* str.endswith(c) for a one-character suffix
EndsWith(s, c) == s # <<>> /\ s[Len(s)] = c

\* s[:-1]
DropLast(s) == IF s = <<>> THEN <<>> ELSE SubSeq(s, 1, Len(s) - 1)

\* the value of a non-empty string of decimal digits
RECURSIVE DigitsValue(_)
DigitsValue(s) ==
    IF Len(s) = 1 THEN DigitValue(s[1])
    ELSE 10 * DigitsValue(DropLast(s)) + DigitValue(s[Len(s)])

\* int(s): surrounding whitespace is ignored, then an optional sign and
\* decimal digits; anything else raises ValueError
int(s) ==
    LET t == Strip(s)
        signed == t # <<>> /\ t[1] \in {"+", "-"}
        digits == IF signed THEN Tail(t) ELSE t
    IN IF digits # <<>> /\ \A i \in 1..Len(digits) : IsDigit(digits[i])
       THEN [exc |-> "none",
             val |-> IF signed /\ t[1] = "-"
                     THEN 0 - DigitsValue(digits)
                     ELSE DigitsValue(digits)]
       ELSE [exc |-> "ValueError", val |-> 0]

max(a, b) == IF a >= b THEN a ELSE b

\* apply f to the value of a successful int(), pass a ValueError on
OnInt(parsed, value) ==
    IF parsed.exc = "none" THEN [exc |-> "none", val |-> value] ELSE parsed

\* parse_size_to_gb(size_str)
parse_size_to_gb_no_floor_min(size_str) ==
    LET s == Strip(Upper(size_str))
        n == int(DropLast(s))
    IN IF EndsWith(s, "G") THEN OnInt(n, n.val)
       ELSE IF EndsWith(s, "M") THEN OnInt(n, n.val \div 1024)
       ELSE IF EndsWith(s, "T") THEN OnInt(n, n.val * 1024)
       ELSE int(s)
parse_size_to_gb_no_T(size_str) ==
    LET s == Strip(Upper(size_str))
        n == int(DropLast(s))
    IN IF EndsWith(s, "G") THEN OnInt(n, n.val)
       ELSE IF EndsWith(s, "M") THEN OnInt(n, max(1, n.val \div 1024))
       ELSE int(s)
parse_size_to_gb(size_str) ==
    LET s == Strip(Upper(size_str))
        n == int(DropLast(s))
    IN IF EndsWith(s, "G") THEN OnInt(n, n.val)
       ELSE IF EndsWith(s, "M") THEN OnInt(n, max(1, n.val \div 1024))
       ELSE IF EndsWith(s, "T") THEN OnInt(n, n.val * 1024)
       ELSE int(s)

\* parse_size_to_mb(size_str)
parse_size_to_mb_no_upper(size_str) ==
    LET s == Strip(size_str)
        n == int(DropLast(s))
    IN IF EndsWith(s, "M") THEN OnInt(n, n.val)
       ELSE IF EndsWith(s, "G") THEN OnInt(n, n.val * 1024)
       ELSE int(s)
parse_size_to_mb(size_str) ==
    LET s == Strip(Upper(size_str))
        n == int(DropLast(s))
    IN IF EndsWith(s, "M") THEN OnInt(n, n.val)
       ELSE IF EndsWith(s, "G") THEN OnInt(n, n.val * 1024)
       ELSE int(s)

\* the size strings tried: a number of 0..MaxSize in decimal, a unit suffix
\* in either case or none, optional surrounding blanks
Units == {<<>>, <<"G">>, <<"g">>, <<"M">>, <<"m">>, <<"T">>, <<"t">>}
Pads == {<<>>, <<" ">>}
SizeSpecs == [n : 0..MaxSize, unit : Units, lpad : Pads, rpad : Pads]
SizeText(spec) == spec.lpad \o IntToStr(spec.n) \o spec.unit \o spec.rpad

NoSize == [n |-> 0, unit |-> <<>>, lpad |-> <<>>, rpad |-> <<>>]
NoSizeResult == [op |-> "none", outcome |-> "none", value |-> 0]

SizeOutcome(op, r) ==
    [op |-> op,
     outcome |-> IF r.exc = "none" THEN "return" ELSE r.exc,
     value |-> r.val]

ParseSizeToGb ==
    /\ szResult' = SizeOutcome("parse_size_to_gb", parse_size_to_gb(sizeStr))
    /\ UNCHANGED <<sizeOf, sizeStr, resolverVars, loaderVars, restVars>>

ParseSizeToMb ==
    /\ szResult' = SizeOutcome("parse_size_to_mb", parse_size_to_mb(sizeStr))
    /\ UNCHANGED <<sizeOf, sizeStr, resolverVars, loaderVars, restVars>>

----------------------------------------------------------------------------
(* Service loader: service_loader.py *)

\* An optional value (a key that may be missing from a YAML mapping, an
\* Optional dataclass field) is a sequence of zero or one element.
None == <<>>
Some(x) == <<x>>

\* The outcome of a function call: a returned value or a raised exception.
Ok(v) == [exc |-> "none", detail |-> "", val |-> <<v>>]
Raise(e, d) == [exc |-> e, detail |-> d, val |-> <<>>]

\* the ipv4 / ipv6 branch of parse_network_interface: data[family]["address"]
\* and data[family]["gateway"] when the family is present
ParseIp(family) ==
    IF family = None THEN Ok(None)
    ELSE IF family[1].address = None THEN Raise("KeyError", "address")
    ELSE IF family[1].gateway = None THEN Raise("KeyError", "gateway")
    ELSE Ok(Some([address |-> family[1].address[1],
                  gateway |-> family[1].gateway[1]]))

\* _parse_network_interface(name, data)
parse_network_interface(name, data) ==
    LET ipv4 == ParseIp(data.ipv4)
        ipv6 == ParseIp(data.ipv6)
    IN IF ipv4.exc # "none" THEN ipv4
       ELSE IF ipv6.exc # "none" THEN ipv6
       ELSE Ok([name |-> name, ipv4 |-> ipv4.val[1], ipv6 |-> ipv6.val[1]])

\* the loop over props["network_interfaces"].items()
RECURSIVE ParseInterfaces(_)
ParseInterfaces(items) ==
    IF items = <<>> THEN Ok(<<>>)
    ELSE LET head == parse_network_interface(items[1][1], items[1][2])
             rest == ParseInterfaces(Tail(items))
         IN IF head.exc # "none" THEN head
            ELSE IF rest.exc # "none" THEN rest
            ELSE Ok(<<<<items[1][1], head.val[1]>>>> \o rest.val[1])

\* the loop over props["disks"].items(): DiskConfig(size=disk_data["size"])
RECURSIVE ParseDisks(_)
ParseDisks(items) ==
    IF items = <<>> THEN Ok(<<>>)
    ELSE LET rest == ParseDisks(Tail(items))
         IN IF items[1][2].size = None THEN Raise("KeyError", "size")
            ELSE IF rest.exc # "none" THEN rest
            ELSE Ok(<<<<items[1][1], [size |-> items[1][2].size[1]]>>>>
                    \o rest.val[1])

\* dict.get(key, default)
GetOr(field, default) == IF field = None THEN default ELSE field[1]

Str_512M == <<"5", "1", "2", "M">>
Str_0M == <<"0", "M">>
Str_4G == <<"4", "G">>

\* _parse_container_properties(props)
parse_container_properties(props) ==
    LET disks == IF props.disks = None THEN Ok(<<>>)
                 ELSE ParseDisks(props.disks[1])
        cpu == IF props.cpu = None THEN [cores |-> 1]
               ELSE [cores |-> GetOr(props.cpu[1].cores, 1)]
        memory == IF props.memory = None
                  THEN [size |-> Str_512M, swap |-> Str_0M]
                  ELSE [size |-> GetOr(props.memory[1].size, Str_512M),
                        swap |-> GetOr(props.memory[1].swap, Str_0M)]
        network_interfaces ==
            IF props.network_interfaces = None THEN Ok(<<>>)
            ELSE ParseInterfaces(props.network_interfaces[1])
    IN IF disks.exc # "none" THEN disks
       ELSE IF network_interfaces.exc # "none" THEN network_interfaces
       ELSE IF props.hostname = None THEN Raise("KeyError", "hostname")
       ELSE IF props.template = None THEN Raise("KeyError", "template")
       ELSE IF props.template[1].name = None THEN Raise("KeyError", "name")
       ELSE Ok([hostname |-> props.hostname[1],
                template |-> [name |-> props.template[1].name[1]],
                resource_pool |-> props.resource_pool,
                disks |-> disks.val[1],
                cpu |-> cpu,
                memory |-> memory,
                network_interfaces |-> network_interfaces.val[1]])

\* _parse_resource(resource_data)
parse_resource(resource_data) ==
    LET properties == parse_container_properties(resource_data.properties[1])
    IN IF resource_data.type = None THEN Raise("KeyError", "type")
       ELSE IF resource_data.type[1] # "proxmox:container"
            THEN Raise("ServiceParseError", "Unsupported resource type")
       ELSE IF resource_data.id = None THEN Raise("KeyError", "id")
       ELSE IF resource_data.properties = None THEN Raise("KeyError", "properties")
       ELSE IF properties.exc # "none" THEN properties
       ELSE Ok([id |-> resource_data.id[1],
                type |-> resource_data.type[1],
                properties |-> properties.val[1]])

\* [_parse_resource(r) for r in data.get("resources", [])]
RECURSIVE ParseResources(_)
ParseResources(items) ==
    IF items = <<>> THEN Ok(<<>>)
    ELSE LET head == parse_resource(items[1])
             rest == ParseResources(Tail(items))
         IN IF head.exc # "none" THEN head
            ELSE IF rest.exc # "none" THEN rest
            ELSE Ok(<<head.val[1]>> \o rest.val[1])

\* service directory names
Name_B == <<"B">>
Name_a == <<"a">>
Name_ab == <<"a", "b">>
Name_b1 == <<"b", "1">>
Names == {Name_B, Name_a, Name_ab, Name_b1}

\* path.exists() of SERVICES_BASE_PATH / service_name / "service.yaml"
ServiceYamlExists(f, name) ==
    /\ f.base = "dir"
    /\ f.entries[name].kind = "dir"
    /\ f.entries[name].yaml # None

\* get_service_path(service_name)
get_service_path(f, name) ==
    IF ~ServiceYamlExists(f, name)
    THEN Raise("ServiceNotFoundError", "not found")
    ELSE Ok(name)

\* the part of load_service after the path was found: open, yaml.safe_load,
\* parse the resources, build the Service
LoadFrom(f, name) ==
    LET file == f.entries[name].yaml
        data == file[1]
        resources == ParseResources(GetOr(data.resources, <<>>))
    IN IF file = None THEN Raise("FileNotFoundError", "open")
       ELSE IF data.kind = "invalid" THEN Raise("ServiceParseError", "Invalid YAML")
       ELSE IF data.kind = "empty" THEN Raise("AttributeError", "get")
       ELSE IF resources.exc # "none" THEN resources
       ELSE IF data.id = None THEN Raise("KeyError", "id")
       ELSE Ok([id |-> data.id[1],
                description |-> GetOr(data.description, ""),
                resources |-> resources.val[1]])

NoLoad ==
    [op |-> "none", name |-> <<>>, outcome |-> "none", detail |-> "",
     service |-> None, services |-> <<>>]

LoadOutcome(name, r) ==
    [op |-> "load_service", name |-> name,
     outcome |-> IF r.exc = "none" THEN "return" ELSE r.exc,
     detail |-> r.detail, service |-> r.val, services |-> <<>>]

\* load_service(service_name)
load_service_no_exists_check(name) ==
    /\ opened' = 1
    /\ ldResult' = LoadOutcome(name, LoadFrom(fs, name))
    /\ UNCHANGED fs
load_service(name) ==
    LET path == get_service_path(fs, name)
    IN /\ IF path.exc # "none"
          THEN /\ opened' = 0
               /\ ldResult' = LoadOutcome(name, path)
          ELSE /\ opened' = 1
               /\ ldResult' = LoadOutcome(name, LoadFrom(fs, name))
       /\ UNCHANGED fs

LoadService ==
    /\ \E name \in Names : load_service(name)
    /\ UNCHANGED <<resolverVars, sizeVars, restVars>>

\* the orders in which iterdir() may yield the entries of a directory
Orderings(S) ==
    {order \in [1..Cardinality(S) -> S] :
        \A i, j \in 1..Cardinality(S) : i # j => order[i] # order[j]}

\* the loop of discover_services over SERVICES_BASE_PATH.iterdir()
RECURSIVE CollectServices(_, _)
CollectServices(f, dirs) ==
    IF dirs = <<>> THEN <<>>
    ELSE (IF f.entries[dirs[1]].kind = "dir" /\ f.entries[dirs[1]].yaml # None
          THEN <<dirs[1]>> ELSE <<>>)
         \o CollectServices(f, Tail(dirs))

DiscoverOutcome(outcome, services) ==
    [op |-> "discover_services", name |-> <<>>, outcome |-> outcome,
     detail |-> "", service |-> None, services |-> services]

\* discover_services(), iterdir() yielding the entries in the order iterdir
discover_services_unsorted(iterdir) ==
    IF fs.base = "absent" THEN DiscoverOutcome("return", <<>>)
    ELSE IF fs.base = "file" THEN DiscoverOutcome("NotADirectoryError", <<>>)
    ELSE DiscoverOutcome("return", CollectServices(fs, iterdir))
discover_services(iterdir) ==
    IF fs.base = "absent" THEN DiscoverOutcome("return", <<>>)
    ELSE IF fs.base = "file" THEN DiscoverOutcome("NotADirectoryError", <<>>)
    ELSE DiscoverOutcome("return", Sorted(CollectServices(fs, iterdir)))

DiscoverServices ==
    /\ \E iterdir \in Orderings({n \in Names : fs.entries[n].kind # "absent"}) :
          ldResult' = discover_services(iterdir)
    /\ opened' = 0
    /\ UNCHANGED <<fs, resolverVars, sizeVars, restVars>>

(* The service.yaml contents tried *)

Ip_ok == [address |-> Some("10.11.1.2/22"), gateway |-> Some("10.11.0.1")]
Ip6_ok == [address |-> Some("fd00:11:1::2/64"), gateway |-> Some("fd00:11::1")]
Iface_ok == [ipv4 |-> Some(Ip_ok), ipv6 |-> Some(Ip6_ok)]

\* a complete properties mapping
Props_ok ==
    [hostname |-> Some("web"),
     template |-> Some([name |-> Some(<<"a", "-", "*">>)]),
     resource_pool |-> Some("lab"),
     disks |-> Some(<<<<"rootfs", [size |-> Some(Str_4G)]>>>>),
     cpu |-> Some([cores |-> Some(2)]),
     memory |-> Some([size |-> Some(<<"2", "G">>), swap |-> None]),
     network_interfaces |-> Some(<<<<"eth0", Iface_ok>>>>)]

\* only the required keys
Props_min ==
    [hostname |-> Some("web"),
     template |-> Some([name |-> Some(<<"b", "*", "1">>)]),
     resource_pool |-> None, disks |-> None, cpu |-> None, memory |-> None,
     network_interfaces |-> None]

WithInterface(iface) ==
    [Props_ok EXCEPT !.network_interfaces = Some(<<<<"eth0", iface>>>>)]

\* valid properties, and properties that lack one required key
PropsValid ==
    { Props_ok, Props_min,
      WithInterface([ipv4 |-> Some(Ip_ok), ipv6 |-> None]),
      WithInterface([ipv4 |-> None, ipv6 |-> None]) }
PropsLacking ==
    { [Props_ok EXCEPT !.hostname = None],
      [Props_ok EXCEPT !.template = None],
      [Props_ok EXCEPT !.template = Some([name |-> None])],
      [Props_ok EXCEPT !.disks = Some(<<<<"rootfs", [size |-> None]>>>>)],
      WithInterface([Iface_ok EXCEPT !.ipv4 = Some([Ip_ok EXCEPT !.address = None])]),
      WithInterface([Iface_ok EXCEPT !.ipv4 = Some([Ip_ok EXCEPT !.gateway = None])]),
      WithInterface([Iface_ok EXCEPT !.ipv6 = Some([Ip6_ok EXCEPT !.address = None])]),
      WithInterface([Iface_ok EXCEPT !.ipv6 = Some([Ip6_ok EXCEPT !.gateway = None])]) }

Container(props) ==
    [id |-> Some("ct1"), type |-> Some("proxmox:container"),
     properties |-> Some(props)]

\* resource mappings: valid containers, containers lacking a key, and
\* resources of another type
ResourceDatas ==
    {Container(p) : p \in PropsValid \cup PropsLacking}
    \cup { [Container(Props_ok) EXCEPT !.id = None],
           [Container(Props_ok) EXCEPT !.type = None],
           [Container(Props_ok) EXCEPT !.properties = None],
           [Container(Props_ok) EXCEPT !.type = Some("other:thing")],
           [id |-> None, type |-> Some("other:thing"), properties |-> None] }

\* what yaml.safe_load makes of the file: a YAMLError, None for an empty
\* file, or a mapping
InvalidYaml ==
    [kind |-> "invalid", id |-> None, description |-> None, resources |-> None]
EmptyYaml ==
    [kind |-> "empty", id |-> None, description |-> None, resources |-> None]
Documents ==
    {InvalidYaml, EmptyYaml}
    \cup [kind : {"dict"}, id : {None, Some("web")},
          description : {None, Some("a web server")},
          resources : {None} \cup {Some(r) : r \in SeqsUpTo(ResourceDatas, MaxResources)}]

\* directory entries of the services base path
NoEntry == [kind |-> "absent", yaml |-> None]
FileEntry == [kind |-> "file", yaml |-> None]
DirEntry(yaml) == [kind |-> "dir", yaml |-> yaml]
ValidDocument ==
    [kind |-> "dict", id |-> Some("web"), description |-> None,
     resources |-> Some(<<Container(Props_ok)>>)]

----------------------------------------------------------------------------
(* Credentials: credentials.py *)

Str_op == <<"o", "p", ":", "/", "/">>
Str_http == <<"h", "t", "t", "p">>
Str_https == <<"h", "t", "t", "p", "s", ":", "/", "/">>
Str_port == <<":", "8", "0", "0", "6">>
Str_root == <<"r", "o", "o", "t", "@", "p", "a", "m">>

\* str.startswith(prefix)
StartsWith(s, prefix) ==
    Len(s) >= Len(prefix) /\ SubSeq(s, 1, Len(prefix)) = prefix

\* c in s, for a one-character c
Contains(s, c) == \E i \in 1..Len(s) : s[i] = c

\* a split at the last c
SplitOnce_at_last(s, c) ==
    IF Contains(s, c)
    THEN LET last == CHOOSE i \in 1..Len(s) :
                        s[i] = c /\ \A j \in (i + 1)..Len(s) : s[j] # c
         IN <<SubSeq(s, 1, last - 1), SubSeq(s, last + 1, Len(s))>>
    ELSE <<s>>

\* s.split(c, 1): the parts before and after the first c, or [s] without c
SplitOnce(s, c) ==
    IF Contains(s, c)
    THEN LET first == CHOOSE i \in 1..Len(s) :
                         s[i] = c /\ \A j \in 1..(i - 1) : s[j] # c
         IN <<SubSeq(s, 1, first - 1), SubSeq(s, first + 1, Len(s))>>
    ELSE <<s>>

\* the secret references of the model and what `op read` prints for them
Ref_host == <<"o", "p", ":", "/", "/", "h">>
Ref_token == <<"o", "p", ":", "/", "/", "t">>
Ref_secret == <<"o", "p", ":", "/", "/", "s">>
Ref_id == <<"o", "p", ":", "/", "/", "i">>
Ref_backend == <<"o", "p", ":", "/", "/", "b">>
Ref_key == <<"o", "p", ":", "/", "/", "k">>
Ref_aws == <<"o", "p", ":", "/", "/", "x">>
Vault(reference) ==
    CASE reference = Ref_host -> <<"p", "v", "e", "\n">>
      [] reference = Ref_token -> <<"u", "!", "t", "=", "s", "\n">>
      [] reference = Ref_secret -> <<" ", "s", "\n">>
      [] reference = Ref_id -> <<"u", "!", "t", "\n">>
      [] reference = Ref_backend -> <<"s", "3", ":", "/", "/", "b", "\n">>
      [] reference = Ref_key -> <<"k", "\n">>
      [] OTHER -> <<"x", "\n">>

\* the outcome of a call that may run subprocesses: what it returned or
\* raised, and the argument vectors of the subprocesses it ran, in order
Did(r, reads) == [exc |-> r.exc, detail |-> r.detail, val |-> r.val,
                  reads |-> reads]

\* _load_config(), an lru_cache over reading and parsing config.yaml
load_config ==
    IF configCache # None THEN Ok(configCache[1])
    ELSE IF config.file = "missing"
    THEN Raise("CredentialsError", "Config file not found")
    ELSE IF config.file = "invalid"
    THEN Raise("CredentialsError", "Invalid YAML")
    ELSE Ok([proxmox |-> config.proxmox, pulumi |-> config.pulumi])

\* the lru_cache after a call of _load_config: a raised call caches nothing
ConfigCached ==
    IF load_config.exc = "none" THEN Some(load_config.val[1]) ELSE configCache

\* _op_read(reference): subprocess.run(["op", "read", reference], check=True)
op_read(reference) ==
    Did(CASE tool = "ok" -> Ok(Strip(Vault(reference)))
          [] tool = "fails" ->
                Raise("CredentialsError", "Failed to read 1Password reference")
          [] tool = "missing" ->
                Raise("CredentialsError", "1Password CLI (op) not found"),
        << <<"op", "read", reference>> >>)

\* _resolve_value(value)
resolve_value_always_reads(value) == op_read(value)
resolve_value(value) ==
    IF StartsWith(value, Str_op) THEN op_read(value) ELSE Did(Ok(value), <<>>)

\* endpoint=f"https://{host}:8006" if not host.startswith("http") else host
Endpoint(host) ==
    IF StartsWith(host, Str_http) THEN host ELSE Str_https \o host \o Str_port

\* get_proxmox_credentials()
get_proxmox_credentials ==
    LET proxmox_config == load_config.val[1].proxmox
        host == resolve_value(GetOr(proxmox_config.host, <<>>))
        api_token == resolve_value(GetOr(proxmox_config.api_token, <<>>))
        parts == SplitOnce(api_token.val[1], "!")
        token == SplitOnce(parts[2], "=")
        api_token_id == resolve_value(GetOr(proxmox_config.api_token_id, <<>>))
    IN IF load_config.exc # "none" THEN Did(load_config, <<>>)
       ELSE IF host.exc # "none" THEN host
       ELSE IF api_token.exc # "none"
       THEN Did(api_token, host.reads \o api_token.reads)
       ELSE IF Contains(api_token.val[1], "!") /\ Contains(api_token.val[1], "=")
       THEN IF Len(token) # 2
            THEN Did(Raise("ValueError", "not enough values to unpack"),
                     host.reads \o api_token.reads)
            ELSE Did(Ok([endpoint |-> Endpoint(host.val[1]),
                         username |-> parts[1] \o <<"!">> \o token[1],
                         password |-> token[2]]),
                     host.reads \o api_token.reads)
       ELSE IF proxmox_config.api_token_id # None
       THEN IF api_token_id.exc # "none"
            THEN Did(api_token_id,
                     host.reads \o api_token.reads \o api_token_id.reads)
            ELSE Did(Ok([endpoint |-> Endpoint(host.val[1]),
                         username |-> api_token_id.val[1],
                         password |-> api_token.val[1]]),
                     host.reads \o api_token.reads \o api_token_id.reads)
       ELSE Did(Ok([endpoint |-> Endpoint(host.val[1]),
                    username |-> GetOr(proxmox_config.username, Str_root),
                    password |-> api_token.val[1]]),
                host.reads \o api_token.reads)

\* get_pulumi_config()
get_pulumi_config ==
    LET pulumi_config == load_config.val[1].pulumi
        backend == resolve_value(GetOr(pulumi_config.backend, <<>>))
        access_key_id ==
            resolve_value(GetOr(pulumi_config.aws_access_key_id, <<>>))
        secret_access_key ==
            resolve_value(GetOr(pulumi_config.aws_secret_access_key, <<>>))
    IN IF load_config.exc # "none" THEN Did(load_config, <<>>)
       ELSE IF backend.exc # "none" THEN backend
       ELSE IF access_key_id.exc # "none"
       THEN Did(access_key_id, backend.reads \o access_key_id.reads)
       ELSE IF secret_access_key.exc # "none"
       THEN Did(secret_access_key,
                backend.reads \o access_key_id.reads \o secret_access_key.reads)
       ELSE Did(Ok([backend |-> backend.val[1],
                    aws |-> [access_key_id |-> access_key_id.val[1],
                             secret_access_key |-> secret_access_key.val[1]]]),
                backend.reads \o access_key_id.reads \o secret_access_key.reads)

NoCredResult ==
    [op |-> "none", outcome |-> "none", detail |-> "", value |-> <<>>,
     reads |-> <<>>]

CredOutcome(op, r) ==
    [op |-> op, outcome |-> IF r.exc = "none" THEN "return" ELSE r.exc,
     detail |-> r.detail, value |-> r.val, reads |-> r.reads]

GetProxmoxCredentials ==
    /\ crResult' = CredOutcome("get_proxmox_credentials", get_proxmox_credentials)
    /\ opReads' = opReads \o get_proxmox_credentials.reads
    /\ configCache' = ConfigCached
    /\ UNCHANGED <<config, tool, resolverVars, loaderVars, sizeVars,
                   patrolVars, cliVars, mapperVars>>

GetPulumiConfig ==
    /\ crResult' = CredOutcome("get_pulumi_config", get_pulumi_config)
    /\ opReads' = opReads \o get_pulumi_config.reads
    /\ configCache' = ConfigCached
    /\ UNCHANGED <<config, tool, resolverVars, loaderVars, sizeVars,
                   patrolVars, cliVars, mapperVars>>

\* the values a config.yaml entry takes in the model: secret references,
\* literals, near misses of the op:// scheme, and a missing key
HostValues == {Some(Ref_host), Some(<<"p", "v", "e">>), Some(<<"h", "t", "t", "p", ":", "/", "/", "p">>), Some(<<"o", "p", ":", "/", "h">>), None}
TokenValues ==
    {Some(Ref_token), Some(Ref_secret), Some(<<"u", "!", "t", "=", "s">>), Some(<<"s">>), Some(<<"O", "p", ":", "/", "/", "t">>),
     Some(<<"x", "o", "p", ":", "/", "/", "t">>),
     Some(<<"u", "@", "r", "!", "t", "=", "s", "=", "x">>), Some(<<"u", "=", "r", "!", "t", "!", "i", "=", "s">>), Some(<<"a", "=", "b", "!", "c">>)}
TokenIdValues == {None, Some(Ref_id), Some(<<"u", "!", "t">>)}
UsernameValues == {None, Some(<<"m", "e", "@", "p", "v", "e">>)}
ProxmoxConfigs ==
    [host : HostValues, api_token : TokenValues, api_token_id : TokenIdValues,
     username : UsernameValues]
PulumiConfigs ==
    [backend : {Some(Ref_backend), Some(<<"s", "3", ":", "/", "/", "b">>)},
     aws_access_key_id : {Some(Ref_key), Some(<<"k">>)},
     aws_secret_access_key : {Some(Ref_aws), None}]
NoProxmox ==
    [host |-> None, api_token |-> None, api_token_id |-> None, username |-> None]
NoPulumi ==
    [backend |-> None, aws_access_key_id |-> None, aws_secret_access_key |-> None]
Tools == {"ok", "fails", "missing"}

----------------------------------------------------------------------------
(* Instance patrol: app/orchestration/instance-patrol/__main__.py *)

\* the instance ids of the fleet, in the order describe_instances lists them
InstanceIds == {"i-1", "i-2", "i-3"}
InstanceOrder == <<"i-1", "i-2", "i-3">>

\* the hour of the sweep, and the hours written in ExpireAt tags around it
Noon == 12
TagHours == {Noon - 1, Noon, Noon + 1}

\* An ExpireAt tag value: the empty string, a text that is no ISO timestamp,
\* or an ISO timestamp of a local hour followed by "Z", a UTC offset or
\* nothing.
EmptyTag == [shape |-> "empty", hour |-> 0, zone |-> ""]
TextTag == [shape |-> "text", hour |-> 0, zone |-> ""]
IsoTags == [shape : {"iso"}, hour : TagHours, zone : {"Z", "+01:00", ""}]
TagValues == {EmptyTag, TextTag} \cup IsoTags

\* expire_at.replace("Z", "+00:00")
ReplaceZ(tag) == IF tag.zone = "Z" THEN [tag EXCEPT !.zone = "+00:00"] ELSE tag

\* the hours a UTC offset adds to UTC
OffsetHours(zone) ==
    CASE zone = "+00:00" -> 0
      [] zone = "+01:00" -> 1

\* datetime.fromisoformat(text): an aware datetime when the text carries an
\* offset, a naive one when it carries none, ValueError when it is no ISO
\* timestamp
fromisoformat(tag) ==
    IF tag.shape # "iso" THEN Raise("ValueError", "Invalid isoformat string")
    ELSE Ok([hour |-> tag.hour,
             tzinfo |-> IF tag.zone = "" THEN None
                        ELSE Some(OffsetHours(tag.zone))])

\* expire_time < datetime.now(timezone.utc): comparing a naive datetime with
\* an aware one raises TypeError
EarlierThanNow(expire_time) ==
    IF expire_time.tzinfo = None
    THEN Raise("TypeError", "can't compare offset-naive and offset-aware datetimes")
    ELSE Ok(expire_time.hour - expire_time.tzinfo[1] < now)

\* ec2.describe_instances with the tag-key and instance-state-name filters
RECURSIVE Describe(_)
Describe(ids) ==
    IF ids = <<>> THEN <<>>
    ELSE (IF /\ instances[ids[1]].tag # None
             /\ instances[ids[1]].state
                   \in {"pending", "running", "stopping", "stopped"}
          THEN <<ids[1]>> ELSE <<>>)
         \o Describe(Tail(ids))
describe_instances == Describe(InstanceOrder)

\* the loop of lambda_handler over the instances found: the ids collected
\* in instances_to_terminate, or the exception that ends the handler
RECURSIVE Collect(_)
Collect(ids) ==
    IF ids = <<>> THEN Ok(<<>>)
    ELSE LET expire_at == instances[ids[1]].tag[1]
             parsed == fromisoformat(ReplaceZ(expire_at))
             earlier == EarlierThanNow(parsed.val[1])
             rest == Collect(Tail(ids))
         IN IF expire_at.shape = "empty" \/ parsed.exc = "ValueError" THEN rest
            ELSE IF earlier.exc # "none" THEN earlier
            ELSE IF rest.exc # "none" THEN rest
            ELSE Ok((IF earlier.val[1] THEN <<ids[1]>> ELSE <<>>) \o rest.val[1])

NoSweep ==
    [op |-> "none", outcome |-> "none", found |-> <<>>, calls |-> <<>>]

\* lambda_handler(event, context): one sweep. ptResult.calls lists the
\* InstanceIds argument of each terminate_instances call of the sweep.
lambda_handler ==
    LET found == describe_instances
        collected == Collect(found)
        instances_to_terminate == collected.val[1]
    IN IF collected.exc # "none"
       THEN /\ ptResult' = [op |-> "lambda_handler", outcome |-> collected.exc,
                            found |-> found, calls |-> <<>>]
            /\ UNCHANGED instances
       ELSE IF instances_to_terminate # <<>>
       THEN /\ ptResult' = [op |-> "lambda_handler", outcome |-> "return",
                            found |-> found,
                            calls |-> <<instances_to_terminate>>]
            /\ instances' =
                  [i \in InstanceIds |->
                     IF \E k \in 1..Len(instances_to_terminate) :
                           instances_to_terminate[k] = i
                     THEN [instances[i] EXCEPT !.state = "shutting-down"]
                     ELSE instances[i]]
       ELSE /\ ptResult' = [op |-> "lambda_handler", outcome |-> "return",
                            found |-> found, calls |-> <<>>]
            /\ UNCHANGED instances

LambdaHandler ==
    /\ lambda_handler
    /\ UNCHANGED <<now, resolverVars, loaderVars, sizeVars, credVars, cliVars,
                   mapperVars>>

\* the fleets of the model
InstanceStates == {"running", "stopped", "terminated"}
Fleets == [InstanceIds -> [state : InstanceStates,
                          tag : {None} \cup {Some(t) : t \in TagValues}]]

----------------------------------------------------------------------------
(* Container mapper: mappers/container.py *)

DEFAULT_NODE == "rainbow-road"
DEFAULT_DATASTORE == "local-lvm"
DEFAULT_BRIDGE == "vmbr0"
DEFAULT_STORAGE == Str_local

\* props.disks[name] when name in props.disks
DiskOf(disks, name) ==
    LET found == {i \in 1..Len(disks) : disks[i][1] = name}
    IN IF found = {} THEN None ELSE Some(disks[CHOOSE i \in found : TRUE][2])

\* _build_network_interfaces(interfaces)
build_network_interfaces(interfaces) ==
    [i \in 1..Len(interfaces) |->
        [name |-> interfaces[i][1], bridge |-> DEFAULT_BRIDGE]]

\* ContainerInitializationIpConfigIpv4Args / ...Ipv6Args(address=..., gateway=...)
\* of an interface's IPv4Config / IPv6Config, None when the interface has none
IpArgs(family) ==
    IF family # None
    THEN Some([address |-> family[1].address, gateway |-> family[1].gateway])
    ELSE None

\* the loop of _build_initialization over props.network_interfaces.items()
RECURSIVE IpConfigs(_)
IpConfigs(items) ==
    IF items = <<>> THEN <<>>
    ELSE <<[ipv4 |-> IpArgs(items[1][2].ipv4),
            ipv6 |-> IpArgs(items[1][2].ipv6)]>> \o IpConfigs(Tail(items))

\* a loop that leaves out the interfaces without any address
RECURSIVE IpConfigs_skips_unaddressed(_)
IpConfigs_skips_unaddressed(items) ==
    IF items = <<>> THEN <<>>
    ELSE (IF items[1][2].ipv4 = None /\ items[1][2].ipv6 = None THEN <<>>
          ELSE <<[ipv4 |-> IpArgs(items[1][2].ipv4),
                  ipv6 |-> IpArgs(items[1][2].ipv6)]>>)
         \o IpConfigs_skips_unaddressed(Tail(items))

\* _build_initialization(props)
build_initialization_skips_unaddressed(props) ==
    LET ip_configs == IpConfigs_skips_unaddressed(props.network_interfaces)
    IN [hostname |-> props.hostname,
        ip_configs |-> IF ip_configs # <<>> THEN Some(ip_configs) ELSE None]
build_initialization(props) ==
    LET ip_configs == IpConfigs(props.network_interfaces)
    IN [hostname |-> props.hostname,
        ip_configs |-> IF ip_configs # <<>> THEN Some(ip_configs) ELSE None]

\* the body of create_container(resource, provider, credentials, node_name):
\* the arguments of the proxmox.ct.Container it declares, or what it raises
create_container(resource, provider, credentials, node_name) ==
    LET props == resource.properties
        key == <<node_name, DEFAULT_STORAGE>>
        listed == list_templates(remote, key)
        template_file_id ==
            IF listed.ok
            THEN Select("resolve_template", key, props.template.name,
                        listed.templates)
            ELSE ListFailed("resolve_template", key, props.template.name)
        rootfs == DiskOf(props.disks, "rootfs")
        rootfs_size == IF rootfs = None THEN [exc |-> "none", val |-> 4]
                       ELSE parse_size_to_gb(rootfs[1].size)
        memory_mb == parse_size_to_mb(props.memory.size)
        swap_mb == parse_size_to_mb(props.memory.swap)
    IN IF template_file_id.outcome # "return"
       THEN Raise(template_file_id.outcome, template_file_id.error)
       ELSE IF rootfs_size.exc # "none" THEN Raise(rootfs_size.exc, "rootfs")
       ELSE IF memory_mb.exc # "none" THEN Raise(memory_mb.exc, "memory")
       ELSE IF swap_mb.exc # "none" THEN Raise(swap_mb.exc, "swap")
       ELSE Ok([name |-> resource.id,
                node_name |-> node_name,
                template_file_id |-> template_file_id.value,
                cores |-> props.cpu.cores,
                dedicated |-> memory_mb.val,
                swap |-> swap_mb.val,
                datastore_id |-> DEFAULT_DATASTORE,
                size |-> rootfs_size.val,
                network_interfaces |->
                    build_network_interfaces(props.network_interfaces),
                initialization |-> build_initialization(props),
                pool_id |-> props.resource_pool,
                provider |-> provider])

\* the parameters of create_container, and those with a default value
CreateContainerParameters == <<"resource", "provider", "credentials", "node_name">>
CreateContainerDefaults == {"node_name"}

\* Python's binding of a call with npositional positional arguments and the
\* keyword arguments keywords to a function without *args and **kwargs
Bind(parameters, defaults, npositional, keywords) ==
    IF npositional > Len(parameters)
    THEN Raise("TypeError", "takes fewer positional arguments")
    ELSE IF \E k \in keywords : \A i \in 1..Len(parameters) : parameters[i] # k
    THEN Raise("TypeError", "got an unexpected keyword argument")
    ELSE IF \E i \in 1..npositional : parameters[i] \in keywords
    THEN Raise("TypeError", "got multiple values for argument")
    ELSE IF \E i \in (npositional + 1)..Len(parameters) :
               parameters[i] \notin keywords \cup defaults
    THEN Raise("TypeError", "missing required positional argument")
    ELSE Ok(TRUE)

\* no properties handed over, no builder called
NoProps ==
    [hostname |-> "", template |-> [name |-> <<>>], resource_pool |-> None,
     disks |-> <<>>, cpu |-> [cores |-> 1],
     memory |-> [size |-> Str_512M, swap |-> Str_0M],
     network_interfaces |-> <<>>]
NoBuilt == [op |-> "none", value |-> <<>>]

\* create_container: network_interfaces=_build_network_interfaces(...)
BuildNetworkInterfaces ==
    /\ mpResult' = [op |-> "build_network_interfaces",
                    value |-> build_network_interfaces(mpProps.network_interfaces)]
    /\ UNCHANGED <<mpProps, resolverVars, loaderVars, sizeVars, credVars,
                   patrolVars, cliVars>>

\* create_container: initialization=_build_initialization(props)
BuildInitialization ==
    /\ mpResult' = [op |-> "build_initialization",
                    value |-> build_initialization(mpProps)]
    /\ UNCHANGED <<mpProps, resolverVars, loaderVars, sizeVars, credVars,
                   patrolVars, cliVars>>

(* The ContainerProperties the mapper is run on *)

InterfaceNames == {"eth0", "eth1", "eth2"}
Ipv4Configs ==
    {[address |-> "10.11.1.2/22", gateway |-> "10.11.0.1"],
     [address |-> "192.168.1.5/24", gateway |-> "192.168.1.1"]}
Ipv6Configs == {[address |-> "fd00:11:1::2/64", gateway |-> "fd00:11::1"]}

\* NetworkInterface(name, ipv4, ipv6), as the items of the dict by name
NetworkInterfaces ==
    {<<n, [name |-> n, ipv4 |-> v4, ipv6 |-> v6]>> :
        n \in InterfaceNames,
        v4 \in {None} \cup {Some(c) : c \in Ipv4Configs},
        v6 \in {None} \cup {Some(c) : c \in Ipv6Configs}}

\* the items of a dict: no name twice, in insertion order
InterfaceDicts ==
    {d \in SeqsUpTo(NetworkInterfaces, MaxInterfaces) :
        \A i, j \in 1..Len(d) : d[i][1] = d[j][1] => i = j}

MapperProps ==
    {[parse_container_properties(Props_ok).val[1]
        EXCEPT !.network_interfaces = d] : d \in InterfaceDicts}

----------------------------------------------------------------------------
(* Deployer: deployer.py *)

PROJECT_NAME == "lab-homelab"

\* what running a Pulumi program did: the containers it declared and the
\* outputs it exported, in order, and the exception that ended it, if any
Ran(exc, detail, creations, exports) ==
    [exc |-> exc, detail |-> detail, creations |-> creations,
     exports |-> exports]

\* the loop of pulumi_program over service.resources
RECURSIVE ProgramLoop(_, _, _)
ProgramLoop(resources, provider, credentials) ==
    IF resources = <<>> THEN Ran("none", "", <<>>, <<>>)
    ELSE LET resource == resources[1]
             call == Bind(CreateContainerParameters, CreateContainerDefaults,
                          3, {"service_dir"})
             container == create_container(resource, provider, credentials,
                                           DEFAULT_NODE)
             rest == ProgramLoop(Tail(resources), provider, credentials)
         IN IF resource.type # "proxmox:container" THEN rest
            ELSE IF call.exc # "none"
            THEN Ran(call.exc, call.detail, <<>>, <<>>)
            ELSE IF container.exc # "none"
            THEN Ran(container.exc, container.detail, <<>>, <<>>)
            ELSE Ran(rest.exc, rest.detail,
                     <<container.val[1]>> \o rest.creations,
                     <<[name |-> resource.id \o "_id",
                        value |-> resource.id]>> \o rest.exports)

\* api_token = f"{credentials.username}={credentials.password}"
provider_api_token(credentials) ==
    credentials.username \o <<"=">> \o credentials.password

\* _get_auth_header(credentials) of the template resolver
Str_PVEAPIToken == <<"P", "V", "E", "A", "P", "I", "T", "o", "k", "e", "n", "=">>
get_auth_header(credentials) ==
    Str_PVEAPIToken \o credentials.username \o <<"=">> \o credentials.password

\* pulumi_program() of _create_pulumi_program(service, credentials, service_dir)
pulumi_program(service, credentials) ==
    LET api_token == provider_api_token(credentials)
        provider == [endpoint |-> credentials.endpoint, api_token |-> api_token,
                     insecure |-> TRUE]
    IN ProgramLoop(service.resources, provider, credentials)

\* the Pulumi backend without any stack
NoStacks == [s \in {} |-> {}]

\* auto.create_or_select_stack(stack_name=...): the backend with the stack
WithStack(backend, stack_name) ==
    [s \in DOMAIN backend \cup {stack_name} |->
        IF s \in DOMAIN backend THEN backend[s] ELSE {}]

\* the names of the containers a program run declared
Declared(ran) == {ran.creations[i].name : i \in 1..Len(ran.creations)}

\* the backend after stack.preview / stack.up / stack.destroy on stack_name:
\* a preview records nothing, a successful up records what the program
\* declared, a failed up keeps the old resources beside those declared
\* before the failure, a destroy removes every resource of the stack
StackAfter(op, backend, stack_name, ran) ==
    CASE op = "preview_service" -> backend
      [] op = "deploy_service" ->
            [backend EXCEPT ![stack_name] =
                IF ran.exc = "none" THEN Declared(ran)
                ELSE @ \cup Declared(ran)]
      [] op = "destroy_service" -> [backend EXCEPT ![stack_name] = {}]

NoRan == Ran("none", "", <<>>, <<>>)

\* what a call of preview_service / deploy_service / destroy_service did
Effect(op, name, exc, detail, reads, cached, credentials, stack, backend, ran) ==
    [op |-> op, service |-> name,
     outcome |-> IF exc = "none" THEN "return" ELSE exc, detail |-> detail,
     reads |-> reads, cached |-> cached, credentials |-> credentials,
     stack |-> stack, backend |-> backend, creations |-> ran.creations,
     exports |-> ran.exports]

\* _get_or_create_stack(...): the name of the stack it creates or selects
stack_name(service, service_name) == service.id

\* the element of a one-element set
Only(S) == CHOOSE x \in S : TRUE

\* the steps of a deployer call after both credentials calls returned:
\* _get_or_create_stack and stack.preview / stack.up / stack.destroy
RunStack(op, name, service, credentials, reads, cached, last) ==
    Only({Effect(op, name, ran.exc, ran.detail, reads, cached, last,
                 Some(stack), StackAfter(op, WithStack(stacks, stack), stack, ran),
                 ran) :
            ran \in {IF op = "destroy_service" THEN NoRan
                     ELSE pulumi_program(service, credentials)},
            stack \in {stack_name(service, name)}})

\* the steps of a deployer call after load_service returned:
\* get_proxmox_credentials(), get_pulumi_config(), then the stack
Resolve(op, name, service) ==
    Only({IF proxmox_credentials.exc # "none"
          THEN Effect(op, name, proxmox_credentials.exc,
                      proxmox_credentials.detail, proxmox_credentials.reads,
                      cached,
                      CredOutcome("get_proxmox_credentials", proxmox_credentials),
                      None, stacks, NoRan)
          ELSE IF pulumi_config.exc # "none"
          THEN Effect(op, name, pulumi_config.exc, pulumi_config.detail,
                      proxmox_credentials.reads \o pulumi_config.reads, cached,
                      CredOutcome("get_pulumi_config", pulumi_config),
                      None, stacks, NoRan)
          ELSE RunStack(op, name, service, proxmox_credentials.val[1],
                        proxmox_credentials.reads \o pulumi_config.reads, cached,
                        CredOutcome("get_pulumi_config", pulumi_config)) :
            proxmox_credentials \in {get_proxmox_credentials},
            pulumi_config \in {get_pulumi_config},
            cached \in {ConfigCached}})

\* load_service(service_name) as a value
Loaded(name) ==
    IF get_service_path(fs, name).exc # "none" THEN get_service_path(fs, name)
    ELSE LoadFrom(fs, name)

\* a deployer call that resolves the Proxmox credentials before it loads the
\* service
service_operation_resolves_first(op, name) ==
    Only({IF loaded.exc # "none"
          THEN Effect(op, name, loaded.exc, loaded.detail,
                      proxmox_credentials.reads, ConfigCached,
                      CredOutcome("get_proxmox_credentials", proxmox_credentials),
                      None, stacks, NoRan)
          ELSE Resolve(op, name, loaded.val[1]) :
            loaded \in {Loaded(name)},
            proxmox_credentials \in {get_proxmox_credentials}})

\* preview_service / deploy_service / destroy_service (service_name): load the
\* service, resolve the Proxmox credentials and the Pulumi config, create or
\* select the stack, run the stack operation
service_operation(op, name) ==
    Only({IF loaded.exc # "none"
          THEN Effect(op, name, loaded.exc, loaded.detail, <<>>, configCache,
                      crResult, None, stacks, NoRan)
          ELSE Resolve(op, name, loaded.val[1]) :
            loaded \in {Loaded(name)}})

----------------------------------------------------------------------------
(* Command line: cli.py *)

Commands == {"preview", "deploy", "destroy", "list"}

\* the deployer function a command calls for each service
OperationOf(command) ==
    CASE command = "preview" -> "preview_service"
      [] command = "deploy" -> "deploy_service"
      [] command = "destroy" -> "destroy_service"

(* The services, configurations and backends the command line is run on *)

Doc(id, resources) ==
    [kind |-> "dict", id |-> Some(id), description |-> None,
     resources |-> Some(resources)]
Container2 == [Container(Props_min) EXCEPT !.id = Some("ct2")]
CliDocuments ==
    { InvalidYaml, Doc("web", <<>>), Doc("web", <<Container(Props_ok)>>),
      Doc("db", <<Container(Props_ok), Container2>>) }
CliEntries == {NoEntry} \cup {DirEntry(Some(d)) : d \in CliDocuments}

\* homelab/service holding the services a and b1, each in any shape
CliFileSystems ==
    [base : {"absent", "file"}, entries : {[n \in Names |-> NoEntry]}]
    \cup {[base |-> "dir",
           entries |-> [n \in Names |-> CASE n = Name_a -> a
                                          [] n = Name_b1 -> b
                                          [] OTHER -> NoEntry]] :
            a \in CliEntries, b \in CliEntries}

\* config.yaml missing, holding literals only, or holding secret references
LiteralConfig ==
    [file |-> "ok",
     proxmox |-> [host |-> Some(<<"p", "v", "e">>), api_token |-> Some(<<"u", "!", "t", "=", "s">>),
                  api_token_id |-> None, username |-> None],
     pulumi |-> [backend |-> Some(<<"s", "3", ":", "/", "/", "b">>), aws_access_key_id |-> Some(<<"k">>),
                 aws_secret_access_key |-> None]]
ReferenceConfig ==
    [file |-> "ok",
     proxmox |-> [host |-> Some(Ref_host), api_token |-> Some(Ref_token),
                  api_token_id |-> None, username |-> None],
     pulumi |-> [backend |-> Some(Ref_backend),
                 aws_access_key_id |-> Some(Ref_key),
                 aws_secret_access_key |-> Some(Ref_aws)]]
CliConfigs ==
    { [file |-> "missing", proxmox |-> NoProxmox, pulumi |-> NoPulumi],
      LiteralConfig, ReferenceConfig }

\* the stacks left in the backend by earlier runs
Backends ==
    { NoStacks, [s \in {"web"} |-> {}], [s \in {"web"} |-> {"ct1"}],
      [s \in {"web", "db"} |-> IF s = "web" THEN {"ct1"} ELSE {"ct1", "ct2"}] }

\* no process has run yet
IdleCli ==
    [command |-> "none", service |-> None, all |-> FALSE, yes |-> FALSE,
     pc |-> "idle", answer |-> "none", discovered |-> None, queue |-> <<>>,
     errors |-> <<>>, exit |-> None]

\* the process ended with this exit code
Exited(c, code) == [c EXCEPT !.pc = "done", !.queue = <<>>, !.exit = Some(code)]

\* the message a command prints for an exception of its single-service form
ErrorMessage(command, exc) ==
    CASE exc = "ServiceNotFoundError" -> "Error"
      [] exc = "ServiceParseError" /\ command # "destroy" -> "Parse error"
      [] exc = "CredentialsError" -> "Credentials error"
      [] OTHER -> CASE command = "preview" -> "Preview failed"
                    [] command = "deploy" -> "Deployment failed"
                    [] command = "destroy" -> "Destruction failed"

\* click.confirm(..., abort=True) on the answer typed: whether the command
\* goes on
confirm_ignores_answer(answer) == TRUE
confirm(answer) == answer = "y"

\* the command up to its first prompt or deployer call, given what
\* discover_services() returned when the command called it
Started_all_returns(command, service, all, yes, discovered) ==
    LET c == [command |-> command, service |-> service, all |-> all,
              yes |-> yes, pc |-> "loop", answer |-> "none",
              discovered |-> IF /\ command = "list" \/ all \/ service = None
                                /\ discovered.outcome = "return"
                             THEN Some(discovered.services) ELSE None,
              queue |-> <<>>, errors |-> <<>>, exit |-> None]
        confirmed == IF command = "preview" \/ yes THEN "loop" ELSE "prompt"
    IN IF (command = "list" \/ all \/ service = None)
          /\ discovered.outcome # "return"
       THEN Exited([c EXCEPT !.errors = <<"Traceback">>], 1)
       ELSE IF command = "list" THEN Exited(c, 0)
       ELSE IF all
       THEN IF discovered.services = <<>>
            THEN Exited([c EXCEPT !.errors = <<"No services found.">>], 0)
            ELSE [c EXCEPT !.pc = confirmed, !.queue = discovered.services]
       ELSE IF service = None THEN Exited(c, 0)
       ELSE [c EXCEPT !.pc = confirmed, !.queue = <<service[1]>>]
Started(command, service, all, yes, discovered) ==
    LET c == [command |-> command, service |-> service, all |-> all,
              yes |-> yes, pc |-> "loop", answer |-> "none",
              discovered |-> IF /\ command = "list" \/ all \/ service = None
                                /\ discovered.outcome = "return"
                             THEN Some(discovered.services) ELSE None,
              queue |-> <<>>, errors |-> <<>>, exit |-> None]
        confirmed == IF command = "preview" \/ yes THEN "loop" ELSE "prompt"
    IN IF (command = "list" \/ all \/ service = None)
          /\ discovered.outcome # "return"
       THEN Exited([c EXCEPT !.errors = <<"Traceback">>], 1)
       ELSE IF command = "list" THEN Exited(c, 0)
       ELSE IF all
       THEN IF discovered.services = <<>>
            THEN Exited([c EXCEPT !.errors = <<"No services found.">>], 1)
            ELSE [c EXCEPT !.pc = confirmed, !.queue = discovered.services]
       ELSE IF service = None THEN Exited(c, 0)
       ELSE [c EXCEPT !.pc = confirmed, !.queue = <<service[1]>>]

\* the command lines of the model: destroy has no --all, list no arguments,
\* preview no --yes
CommandLines ==
    {l \in [command : Commands, service : {None} \cup {Some(n) : n \in Names},
            all : BOOLEAN, yes : BOOLEAN] :
        /\ l.command = "list" => l.service = None /\ ~l.all /\ ~l.yes
        /\ l.command = "destroy" => ~l.all
        /\ l.command = "preview" => ~l.yes
        /\ l.all => l.service = None}

\* a new process runs a command up to its first prompt or deployer call
Invoke ==
    /\ cli.pc = "idle"
    /\ \E l \in CommandLines :
          \E iterdir \in Orderings({n \in Names : fs.entries[n].kind # "absent"}) :
             /\ cli' = Started(l.command, l.service, l.all, l.yes,
                               discover_services(iterdir))
             /\ IF l.command = "list" \/ l.all \/ l.service = None
                THEN ldResult' = discover_services(iterdir) /\ opened' = 0
                ELSE UNCHANGED <<ldResult, opened>>
    /\ invoked' = <<>>
    /\ opReads' = <<>>
    /\ configCache' = None
    /\ crResult' = NoCredResult
    /\ UNCHANGED <<fs, config, tool, stacks, resolverVars, sizeVars, patrolVars,
                   mapperVars>>

\* the user answers the confirmation prompt
Answer ==
    /\ cli.pc = "prompt"
    /\ \E answer \in {"y", "n"} :
          cli' = IF confirm(answer)
                 THEN [cli EXCEPT !.pc = "loop", !.answer = answer]
                 ELSE Exited([cli EXCEPT !.answer = answer], 1)
    /\ UNCHANGED <<invoked, stacks, resolverVars, loaderVars, sizeVars, credVars,
                   patrolVars, mapperVars>>

\* a loop that gives up at the first service that fails
Step_stops_on_failure ==
    /\ cli.pc = "loop"
    /\ cli.queue # <<>>
    /\ \E done \in {service_operation(OperationOf(cli.command), Head(cli.queue))} :
       LET name == Head(cli.queue)
           failed == done.outcome # "return"
       IN /\ load_service(name)
          /\ invoked' = Append(invoked, done)
          /\ opReads' = opReads \o done.reads
          /\ configCache' = done.cached
          /\ crResult' = done.credentials
          /\ stacks' = done.backend
          /\ cli' =
               IF failed
               THEN Exited([cli EXCEPT !.errors =
                               Append(@, ErrorMessage(cli.command, done.outcome))],
                           1)
               ELSE LET c == [cli EXCEPT !.queue = Tail(@)]
                    IN IF c.queue = <<>> THEN Exited(c, 0) ELSE c
    /\ UNCHANGED <<config, tool, resolverVars, sizeVars, patrolVars,
                   mapperVars>>

\* the command calls the deployer for the next service and handles what it
\* raises: the --all forms print the error and go on, the single-service
\* forms print it and exit with code 1
Step ==
    /\ cli.pc = "loop"
    /\ cli.queue # <<>>
    /\ \E done \in {service_operation(OperationOf(cli.command), Head(cli.queue))} :
       LET name == Head(cli.queue)
           failed == done.outcome # "return"
       IN /\ load_service(name)
          /\ invoked' = Append(invoked, done)
          /\ opReads' = opReads \o done.reads
          /\ configCache' = done.cached
          /\ crResult' = done.credentials
          /\ stacks' = done.backend
          /\ cli' =
               IF cli.all
               THEN LET c == [cli EXCEPT
                                 !.queue = Tail(@),
                                 !.errors = IF failed THEN Append(@, "Error")
                                            ELSE @]
                    IN IF c.queue = <<>> THEN Exited(c, 0) ELSE c
               ELSE IF failed
               THEN Exited([cli EXCEPT !.errors =
                               Append(@, ErrorMessage(cli.command, done.outcome))],
                           1)
               ELSE Exited(cli, 0)
    /\ UNCHANGED <<config, tool, resolverVars, sizeVars, patrolVars,
                   mapperVars>>

----------------------------------------------------------------------------
(* Specifications *)

LoaderIdle ==
    /\ fs = [base |-> "absent", entries |-> [n \in Names |-> NoEntry]]
    /\ opened = 0
    /\ ldResult = NoLoad
SizeIdle == sizeOf = NoSize /\ sizeStr = <<>> /\ szResult = NoSizeResult
ResolverIdle ==
    /\ remote = [k \in Keys |-> UrlError]
    /\ cache = <<>>
    /\ calls = [k \in Keys |-> 0]
    /\ rtResult = NoResult

CredIdle ==
    /\ config = [file |-> "missing", proxmox |-> NoProxmox, pulumi |-> NoPulumi]
    /\ configCache = None
    /\ tool = "missing"
    /\ opReads = <<>>
    /\ crResult = NoCredResult
PatrolIdle ==
    /\ instances = [i \in InstanceIds |-> [state |-> "terminated", tag |-> None]]
    /\ now = Noon
    /\ ptResult = NoSweep
CliIdle == stacks = NoStacks /\ cli = IdleCli /\ invoked = <<>>
MapperIdle == mpProps = NoProps /\ mpResult = NoBuilt
RestIdle == CredIdle /\ PatrolIdle /\ CliIdle /\ MapperIdle

\* list_templates and resolve_template on every response of ListingResponses
InitListing ==
    /\ remote \in {[k \in Keys |-> resp] : resp \in ListingResponses}
    /\ cache = <<>>
    /\ calls = [k \in Keys |-> 0]
    /\ rtResult = NoResult
    /\ LoaderIdle
    /\ SizeIdle
    /\ RestIdle

NextListing == rtResult.op = "none" /\ (ListTemplates \/ ResolveTemplate)

SpecListing == InitListing /\ [][NextListing]_vars

\* resolve_template over every inventory of at most MaxInv items
InitResolve ==
    /\ remote \in {[k \in Keys |-> OkResponse(inv)] : inv \in Inventories}
                  \cup {[k \in Keys |-> UrlError]}
    /\ cache = <<>>
    /\ calls = [k \in Keys |-> 0]
    /\ rtResult = NoResult
    /\ LoaderIdle
    /\ SizeIdle
    /\ RestIdle

\* one call per behaviour: resolve_template keeps no state between calls
NextResolve == rtResult.op = "none" /\ ResolveTemplate

SpecResolve == InitResolve /\ [][NextResolve]_vars

\* a sequence of resolve_template_cached calls sharing one cache dict
InitCache ==
    /\ remote \in [Keys -> CacheResponses]
    /\ cache = <<>>
    /\ calls = [k \in Keys |-> 0]
    /\ rtResult = NoResult
    /\ LoaderIdle
    /\ SizeIdle
    /\ RestIdle

NextCache == ResolveTemplateCached \/ RemoteChange

SpecCache == InitCache /\ [][NextCache]_vars

\* the size parsers on every size string of SizeSpecs
InitSize ==
    /\ sizeOf \in SizeSpecs
    /\ sizeStr = SizeText(sizeOf)
    /\ szResult = NoSizeResult
    /\ ResolverIdle
    /\ LoaderIdle
    /\ RestIdle

\* one call per behaviour: the parsers are pure functions
NextSize == szResult.op = "none" /\ (ParseSizeToGb \/ ParseSizeToMb)

SpecSize == InitSize /\ [][NextSize]_vars

\* load_service on a services directory whose entry "a" is missing, a file, a
\* directory without service.yaml or a directory with any of the Documents
InitLoad ==
    /\ \/ fs = [base |-> "absent", entries |-> [n \in Names |-> NoEntry]]
       \/ \E e \in {NoEntry, FileEntry, DirEntry(None)}
                   \cup {DirEntry(Some(d)) : d \in Documents} :
             fs = [base |-> "dir",
                   entries |-> [n \in Names |-> IF n = Name_a THEN e ELSE NoEntry]]
    /\ opened = 0
    /\ ldResult = NoLoad
    /\ ResolverIdle
    /\ SizeIdle
    /\ RestIdle

\* one call per behaviour: each load is a fresh full parse
NextLoad == ldResult.op = "none" /\ LoadService

SpecLoad == InitLoad /\ [][NextLoad]_vars

\* discover_services on every shape of the services base path
InitDiscover ==
    /\ \/ fs \in [base : {"absent", "file"}, entries : {[n \in Names |-> NoEntry]}]
       \/ fs \in [base : {"dir"},
                   entries : [Names -> {NoEntry, FileEntry, DirEntry(None),
                                        DirEntry(Some(ValidDocument))}]]
    /\ opened = 0
    /\ ldResult = NoLoad
    /\ ResolverIdle
    /\ SizeIdle
    /\ RestIdle

NextDiscover == DiscoverServices

SpecDiscover == InitDiscover /\ [][NextDiscover]_vars

\* one credentials call in a fresh process, on every config.yaml of the
\* model and every state of the 1Password CLI
InitCred ==
    /\ \/ config \in [file : {"missing", "invalid"}, proxmox : {NoProxmox},
                      pulumi : {NoPulumi}]
       \/ config \in [file : {"ok"}, proxmox : ProxmoxConfigs,
                      pulumi : PulumiConfigs]
    /\ configCache = None
    /\ tool \in Tools
    /\ opReads = <<>>
    /\ crResult = NoCredResult
    /\ ResolverIdle
    /\ LoaderIdle
    /\ SizeIdle
    /\ PatrolIdle
    /\ CliIdle
    /\ MapperIdle

NextCred == crResult.op = "none" /\ (GetProxmoxCredentials \/ GetPulumiConfig)

SpecCred == InitCred /\ [][NextCred]_vars

\* one sweep of the instance patrol over every fleet of the model
InitPatrol ==
    /\ instances \in Fleets
    /\ now = Noon
    /\ ptResult = NoSweep
    /\ ResolverIdle
    /\ LoaderIdle
    /\ SizeIdle
    /\ CredIdle
    /\ CliIdle
    /\ MapperIdle

NextPatrol == ptResult.op = "none" /\ LambdaHandler

SpecPatrol == InitPatrol /\ [][NextPatrol]_vars

\* one run of the command line, on every command line, services directory,
\* config.yaml, state of the 1Password CLI and backend of the model
InitCli ==
    /\ fs \in CliFileSystems
    /\ opened = 0
    /\ ldResult = NoLoad
    /\ config \in CliConfigs
    /\ configCache = None
    /\ tool \in {"ok", "fails"}
    /\ opReads = <<>>
    /\ crResult = NoCredResult
    /\ remote = [k \in Keys |-> OkResponse(<<Vol_a1, Vol_b1>>)]
    /\ cache = <<>>
    /\ calls = [k \in Keys |-> 0]
    /\ rtResult = NoResult
    /\ stacks \in Backends
    /\ cli = IdleCli
    /\ invoked = <<>>
    /\ SizeIdle
    /\ PatrolIdle
    /\ MapperIdle

NextCli == Invoke \/ Answer \/ Step

SpecCli == InitCli /\ [][NextCli]_vars

\* the builders of the container mapper on every properties of MapperProps
InitMapper ==
    /\ mpProps \in MapperProps
    /\ mpResult = NoBuilt
    /\ ResolverIdle
    /\ LoaderIdle
    /\ SizeIdle
    /\ CredIdle
    /\ PatrolIdle
    /\ CliIdle

NextMapper ==
    mpResult.op = "none" /\ (BuildNetworkInterfaces \/ BuildInitialization)

SpecMapper == InitMapper /\ [][NextMapper]_vars

\* endpoint responses that stay as they are: unreachable, not JSON, and
\* inventories with no, one and two templates matching a pattern
FrozenResponses ==
    CacheResponses
    \cup { [kind |-> "notjson", data |-> <<>>],
           [kind |-> "ok", data |-> <<Vol_A3, Vol_a1>>] }

\* a sequence of resolve_template_cached calls sharing one cache dict, with
\* the remote inventories never changing
InitFrozen ==
    /\ remote \in [Keys -> FrozenResponses]
    /\ cache = <<>>
    /\ calls = [k \in Keys |-> 0]
    /\ rtResult = NoResult
    /\ LoaderIdle
    /\ SizeIdle
    /\ RestIdle

NextFrozen == ResolveTemplateCached

SpecFrozen == InitFrozen /\ [][NextFrozen]_vars

----------------------------------------------------------------------------
(* Claims about the template resolver *)

Range(s) == {s[i] : i \in 1..Len(s)}

\* the inventory list_templates returns for the key of the last call
InventoryOf(key) == list_templates(remote, key).templates

\* the inventory file names whose lower-cased form glob-matches the
\* lower-cased pattern
MatchSet(key, pattern) ==
    {t \in Range(InventoryOf(key)) : fnmatchcase(Lower(t), Lower(pattern))}

\* C1: when at least one inventory file name matches the pattern,
\* resolve_template returns storage + ":vztmpl/" + t, t being the
\* lexicographically greatest file name that matches case-insensitively.
C1_ReturnsGreatestMatch ==
    (/\ rtResult.op = "resolve_template"
     /\ remote[rtResult.key].kind = "ok"
     /\ MatchSet(rtResult.key, rtResult.pattern) # {})
    => /\ rtResult.outcome = "return"
       /\ \E t \in MatchSet(rtResult.key, rtResult.pattern) :
            /\ \A u \in MatchSet(rtResult.key, rtResult.pattern) : StrLeq(u, t)
            /\ rtResult.value = rtResult.key[2] \o Str_vztmpl \o t

\* an upper-case pattern selected a-1 although A-3 matches too and is listed
\* before it
C1_Witness ==
    /\ rtResult.op = "resolve_template"
    /\ rtResult.outcome = "return"
    /\ rtResult.pattern = <<"A", "-", "?">>
    /\ File_A3 \in Range(rtResult.templates)
    /\ rtResult.value = rtResult.key[2] \o Str_vztmpl \o File_a1

\* C2: when no inventory file name matches, resolve_template returns no
\* identifier and raises TemplateResolverError; the message lists the first 5
\* templates in sorted order, then the total count when there are more than
\* 5, and says 'none' when the inventory is empty.
C2_NoMatchListsFive ==
    (/\ rtResult.op = "resolve_template"
     /\ remote[rtResult.key].kind = "ok"
     /\ MatchSet(rtResult.key, rtResult.pattern) = {})
    => LET inv == InventoryOf(rtResult.key)
           n == Len(inv)
           shown == [i \in 1..(IF n > 5 THEN 5 ELSE n) |-> inv[i]]
       IN /\ rtResult.outcome = "TemplateResolverError"
          /\ rtResult.error = "No template matching pattern"
          /\ rtResult.value = <<>>
          /\ \A i, j \in 1..n : i < j => StrLeq(inv[i], inv[j])
          /\ rtResult.available =
                IF n = 0 THEN Str_none
                ELSE Join(Str_comma, shown)
                     \o (IF n > 5
                         THEN Str_dots \o IntToStr(n) \o Str_total
                         ELSE <<>>)

\* no match among more than 5 templates, not all of them the same
C2_Witness ==
    /\ rtResult.op = "resolve_template"
    /\ rtResult.error = "No template matching pattern"
    /\ Len(rtResult.templates) > 5
    /\ Cardinality(Range(rtResult.templates)) > 1

\* C3 as stated: over calls sharing one cache dict, list_templates is called
\* at most once per (node, storage) key, and a cached listing is never
\* replaced or removed.
C3_AtMostOneCallPerKey ==
    [][/\ \A k \in Keys : calls'[k] <= 1
       /\ \A k \in DOMAIN cache : k \in DOMAIN cache' /\ cache'[k] = cache[k]]_vars

\* C3 amended: list_templates is called for a key only while the key is
\* absent from the cache, and a call that succeeds makes the key present, so
\* at most one call per key succeeds (a failed call caches nothing and may be
\* repeated); a cached listing is never replaced or removed.
C3_NoCallOncePresent ==
    [][/\ \A k \in Keys :
            calls'[k] # calls[k]
            => /\ calls'[k] = calls[k] + 1
               /\ k \notin DOMAIN cache
               /\ remote[k].kind = "ok" => k \in DOMAIN cache'
       /\ \A k \in DOMAIN cache : k \in DOMAIN cache' /\ cache'[k] = cache[k]]_vars

\* a call was served from the cache, without a fetch, after the endpoint's
\* inventory changed, while another key was fetched twice
C3_Witness ==
    /\ rtResult.op = "resolve_template_cached"
    /\ ~rtResult.fetched
    /\ rtResult.key \in DOMAIN cache
    /\ calls[rtResult.key] = 1
    /\ remote[rtResult.key].kind = "ok"
    /\ InventoryOf(rtResult.key) # cache[rtResult.key]
    /\ \E k \in Keys : calls[k] = 2 /\ k \in DOMAIN cache

----------------------------------------------------------------------------
(* Claims about the size parsers *)

\* the unit of the size string, in upper case
UnitOf(spec) == Upper(spec.unit)

C9_SizeToMb ==
    (szResult.op = "parse_size_to_mb" /\ UnitOf(sizeOf) # <<"T">>)
    => /\ szResult.outcome = "return"
       /\ szResult.value =
            CASE UnitOf(sizeOf) = <<"M">> -> sizeOf.n
              [] UnitOf(sizeOf) = <<"G">> -> sizeOf.n * 1024
              [] OTHER -> sizeOf.n

\* "2g " gave 2048
C9_Witness ==
    /\ szResult.op = "parse_size_to_mb"
    /\ sizeOf = [n |-> 2, unit |-> <<"g">>, lpad |-> <<>>, rpad |-> <<" ">>]
    /\ szResult.outcome = "return"
    /\ szResult.value = 2048

\* C10 as stated: with every suffix in {G, M, T} both parsers return an
\* integer rather than failing.
C10_BothAcceptGMT ==
    (szResult.op # "none" /\ UnitOf(sizeOf) \in {<<"G">>, <<"M">>, <<"T">>})
    => szResult.outcome = "return"

\* C10 amended: parse_size_to_gb returns an integer for every suffix in
\* {G, M, T}; parse_size_to_mb returns an integer for the suffixes G and M
\* and raises ValueError for the suffix T.
C10_AcceptedSuffixes ==
    /\ (szResult.op = "parse_size_to_gb"
        /\ UnitOf(sizeOf) \in {<<"G">>, <<"M">>, <<"T">>})
       => szResult.outcome = "return" /\ szResult.value \in Nat
    /\ (szResult.op = "parse_size_to_mb" /\ UnitOf(sizeOf) \in {<<"G">>, <<"M">>})
       => szResult.outcome = "return" /\ szResult.value \in Nat
    /\ (szResult.op = "parse_size_to_mb" /\ UnitOf(sizeOf) = <<"T">>)
       => szResult.outcome = "ValueError"

\* parse_size_to_mb("1T") raised ValueError
C10_Witness ==
    /\ szResult.op = "parse_size_to_mb"
    /\ sizeOf = [n |-> 1, unit |-> <<"T">>, lpad |-> <<>>, rpad |-> <<>>]
    /\ szResult.outcome = "ValueError"

----------------------------------------------------------------------------
(* Claims about the service loader *)

\* the parsed content of the service.yaml that the last load_service read
LoadedDocument == fs.entries[ldResult.name].yaml[1]

\* load_service was called on an existing service.yaml holding a mapping
LoadedMapping ==
    /\ ldResult.op = "load_service"
    /\ ServiceYamlExists(fs, ldResult.name)
    /\ LoadedDocument.kind = "dict"

ResourcesOf(doc) == IF doc.resources = None THEN <<>> ELSE doc.resources[1]

IpLacksField(family) ==
    family # None /\ (family[1].address = None \/ family[1].gateway = None)

PropertiesLackField(props) ==
    \/ props.hostname = None
    \/ props.template = None
    \/ (props.template # None /\ props.template[1].name = None)
    \/ (props.disks # None
        /\ \E i \in 1..Len(props.disks[1]) : props.disks[1][i][2].size = None)
    \/ (props.network_interfaces # None
        /\ \E i \in 1..Len(props.network_interfaces[1]) :
              \/ IpLacksField(props.network_interfaces[1][i][2].ipv4)
              \/ IpLacksField(props.network_interfaces[1][i][2].ipv6))

ResourceLacksField(r) ==
    \/ r.id = None
    \/ r.type = None
    \/ r.properties = None
    \/ (r.properties # None /\ PropertiesLackField(r.properties[1]))

\* C4: load_service on a service.yaml in which some resource has a type other
\* than "proxmox:container" raises ServiceParseError and produces no Service.
C4_OtherTypeRaisesParseError ==
    (/\ LoadedMapping
     /\ \E i \in 1..Len(ResourcesOf(LoadedDocument)) :
           /\ ResourcesOf(LoadedDocument)[i].type # None
           /\ ResourcesOf(LoadedDocument)[i].type[1] # "proxmox:container")
    => ldResult.outcome = "ServiceParseError" /\ ldResult.service = None

\* C5: load_service on an existing service.yaml that lacks a required field
\* (service id, resource id, type or properties, hostname, template.name, a
\* disk's size, an ipv4/ipv6 address or gateway) raises ServiceParseError.
C5_MissingFieldRaisesParseError ==
    (/\ LoadedMapping
     /\ \/ LoadedDocument.id = None
        \/ \E i \in 1..Len(ResourcesOf(LoadedDocument)) :
              ResourceLacksField(ResourcesOf(LoadedDocument)[i]))
    => ldResult.outcome = "ServiceParseError"

\* C6: load_service(name) raises ServiceNotFoundError whenever
\* <services base>/<name>/service.yaml does not exist, before any file is
\* opened or parsed.
C6_NotFoundBeforeOpen ==
    (/\ ldResult.op = "load_service"
     /\ ~(/\ fs.base = "dir"
          /\ fs.entries[ldResult.name].kind = "dir"
          /\ fs.entries[ldResult.name].yaml # None))
    => /\ ldResult.outcome = "ServiceNotFoundError"
       /\ opened = 0
       /\ ldResult.service = None

\* the service directory exists but holds no service.yaml
C6_Witness ==
    /\ ldResult.op = "load_service"
    /\ ldResult.name = Name_a
    /\ fs.base = "dir"
    /\ fs.entries[Name_a] = DirEntry(None)
    /\ ldResult.outcome = "ServiceNotFoundError"
    /\ opened = 0

\* C7: discover_services() returns exactly the names of the entries of the
\* base path that are directories containing a service.yaml, in ascending
\* order without duplicates, and the empty list when the base path does not
\* exist.
C7_DiscoverSorted ==
    ldResult.op = "discover_services"
    => /\ fs.base = "absent"
          => ldResult.outcome = "return" /\ ldResult.services = <<>>
       /\ fs.base = "dir"
          => /\ ldResult.outcome = "return"
             /\ Range(ldResult.services) =
                   {n \in Names : /\ fs.entries[n].kind = "dir"
                                  /\ fs.entries[n].yaml # None}
             /\ \A i, j \in 1..Len(ldResult.services) :
                   i < j => StrLess(ldResult.services[i], ldResult.services[j])

\* three services were found, in code point order, next to an entry that is
\* a plain file
C7_Witness ==
    /\ ldResult.op = "discover_services"
    /\ fs.entries[Name_ab].kind = "file"
    /\ ldResult.services = <<Name_B, Name_a, Name_b1>>

\* C19: parse_size_to_gb returns at least 1 for every size string it accepts,
\* that is for every non-negative integer written with the suffix G, M, T or
\* with no suffix.
C19_GbAtLeastOne ==
    (szResult.op = "parse_size_to_gb" /\ szResult.outcome = "return")
    => szResult.value >= 1

----------------------------------------------------------------------------
(* Claims about the credentials *)

\* the value starts with the five characters o p : / /
IsReference(v) ==
    /\ Len(v) >= 5
    /\ v[1] = "o" /\ v[2] = "p" /\ v[3] = ":" /\ v[4] = "/" /\ v[5] = "/"

\* the value config.yaml holds for an entry, "" when the key is missing
EntryValue(entry) == IF entry = None THEN <<>> ELSE entry[1]

\* the config values the last credentials call resolves on every path
ValuesResolved ==
    IF crResult.op = "get_proxmox_credentials"
    THEN {EntryValue(config.proxmox.host), EntryValue(config.proxmox.api_token)}
    ELSE {EntryValue(config.pulumi.backend),
          EntryValue(config.pulumi.aws_access_key_id),
          EntryValue(config.pulumi.aws_secret_access_key)}

\* every value of the section of config.yaml the last call works on
ValuesOfSection ==
    IF crResult.op = "get_proxmox_credentials"
    THEN ValuesResolved \cup {EntryValue(config.proxmox.api_token_id)}
    ELSE ValuesResolved

\* C16: a config value is passed to `op read` exactly when it starts with
\* "op://"; any other value is used literally and no subprocess is run for
\* it; when the tool fails or is missing the call raises CredentialsError and
\* returns no credentials object.
C16_OpReadIffReference ==
    (crResult.op # "none" /\ config.file = "ok")
    => /\ \A i \in 1..Len(crResult.reads) :
             /\ crResult.reads[i][1] = "op" /\ crResult.reads[i][2] = "read"
             /\ crResult.reads[i][3] \in ValuesOfSection
             /\ IsReference(crResult.reads[i][3])
       /\ crResult.outcome = "return"
          => \A v \in ValuesResolved :
                IsReference(v) => <<"op", "read", v>> \in Range(crResult.reads)
       /\ (tool # "ok" /\ \E v \in ValuesResolved : IsReference(v))
          => crResult.outcome = "CredentialsError" /\ crResult.value = None
       /\ (crResult.op = "get_proxmox_credentials" /\ crResult.outcome = "return"
           /\ ~IsReference(EntryValue(config.proxmox.host)))
          => crResult.value[1].endpoint
                \in {EntryValue(config.proxmox.host),
                     <<"h", "t", "t", "p", "s", ":", "/", "/">> \o EntryValue(config.proxmox.host) \o <<":", "8", "0", "0", "6">>}
       /\ (crResult.op = "get_pulumi_config" /\ crResult.outcome = "return"
           /\ ~IsReference(EntryValue(config.pulumi.backend)))
          => crResult.value[1].backend = EntryValue(config.pulumi.backend)
       /\ opReads = crResult.reads

\* with a literal host and the token a reference, a failing tool was run once,
\* on the token, and no credentials came back
C16_Witness ==
    /\ crResult.op = "get_proxmox_credentials"
    /\ tool = "fails"
    /\ config.proxmox.host = Some(<<"p", "v", "e">>)
    /\ config.proxmox.api_token = Some(<<"o", "p", ":", "/", "/", "t">>)
    /\ crResult.reads = << <<"op", "read", <<"o", "p", ":", "/", "/", "t">>>> >>
    /\ crResult.outcome = "CredentialsError"
    /\ crResult.value = None

----------------------------------------------------------------------------
(* Claims about template listing failures *)

\* the response the last resolver call met
ResponseMet == remote[rtResult.key]

\* the items of the "data" list of a JSON document that has one
ItemsOf(body) == body.val["data"].val

\* the endpoint was unreachable, or its body is not JSON, not an object, has
\* a "data" that is not a list, or has items that are not objects
ListingFails(resp) ==
    \/ resp.kind \in {"urlerror", "httperror", "notjson"}
    \/ /\ resp.kind = "json"
       /\ \/ resp.body.type # "object"
          \/ /\ "data" \in DOMAIN resp.body.val
             /\ \/ resp.body.val["data"].type # "list"
                \/ \E i \in 1..Len(ItemsOf(resp.body)) :
                      ItemsOf(resp.body)[i].type # "object"

\* C14: when the endpoint is unreachable or answers with a malformed body,
\* list_templates and resolve_template raise TemplateResolverError and no
\* other exception type.
C14_ListingFailureIsResolverError ==
    (rtResult.op \in {"list_templates", "resolve_template"}
     /\ ListingFails(ResponseMet))
    => rtResult.outcome = "TemplateResolverError"

----------------------------------------------------------------------------
(* Claims about the instance patrol *)

\* the UTC hour an ExpireAt tag value denotes, for a timestamp written with
\* "Z" or an offset
UtcHour(tag) ==
    CASE tag.zone = "Z" -> tag.hour
      [] tag.zone = "+00:00" -> tag.hour
      [] tag.zone = "+01:00" -> tag.hour - 1

\* the instances that were pending, running, stopping or stopped when the
\* sweep listed them and whose ExpireAt is a time before now
ExpiredInstances ==
    {i \in Range(ptResult.found) :
        /\ instances[i].tag # None
        /\ instances[i].tag[1].shape = "iso"
        /\ instances[i].tag[1].zone # ""
        /\ UtcHour(instances[i].tag[1]) < now}

\* C18: one sweep terminates exactly the expired instances: the ids passed to
\* terminate_instances are the instances in state pending, running, stopping
\* or stopped whose ExpireAt is a time strictly earlier than the current UTC
\* time; terminate_instances is called at most once, and not at all when no
\* instance is expired.
C18_SweepTerminatesExpired ==
    ptResult.op = "lambda_handler"
    => /\ Len(ptResult.calls) <= 1
       /\ ExpiredInstances = {} <=> ptResult.calls = <<>>
       /\ ptResult.calls # <<>> => Range(ptResult.calls[1]) = ExpiredInstances

----------------------------------------------------------------------------
(* Claims about the command line *)

\* C11: a state-changing deployer operation (deploy_service, destroy_service)
\* is invoked only after the user confirmed the prompt or passed --yes; while
\* the prompt is open nothing has been invoked, and a declined prompt ends
\* the command with no deployer operation invoked.
C11_ChangeOnlyAfterConfirmation ==
    /\ \A i \in 1..Len(invoked) :
          invoked[i].op \in {"deploy_service", "destroy_service"}
          => cli.yes \/ cli.answer = "y"
    /\ cli.pc = "prompt" => invoked = <<>>
    /\ cli.answer = "n"
       => invoked = <<>> /\ cli.pc = "done" /\ cli.exit = Some(1)

\* deploy --all without --yes, confirmed, deployed both services
C11_Witness ==
    /\ cli.command = "deploy" /\ cli.all /\ ~cli.yes
    /\ cli.answer = "y"
    /\ Len(invoked) = 2
    /\ invoked[1].op = "deploy_service" /\ invoked[2].op = "deploy_service"

\* C12: whenever preview, deploy or destroy caught a failure of a deployer
\* call, in the single-service form or the --all form, the CLI printed an
\* error message and the process ends with exit code 1.
C12_CaughtFailureExitsOne ==
    (cli.pc = "done" /\ \E i \in 1..Len(invoked) : invoked[i].outcome # "return")
    => cli.errors # <<>> /\ cli.exit = Some(1)

\* C13 as stated: whenever a command found that discover_services() returned
\* no services, the process ends with exit code 1.
C13_NoServicesExitsOne ==
    (cli.pc = "done" /\ cli.discovered = Some(<<>>)) => cli.exit = Some(1)

\* C13 amended: when discover_services() returned no services, preview --all
\* and deploy --all end with exit code 1, while preview, deploy and destroy
\* without a service argument and list end with exit code 0.
C13_NoServicesExitCode ==
    (cli.pc = "done" /\ cli.discovered = Some(<<>>))
    => /\ cli.all => cli.exit = Some(1) /\ cli.errors = <<"No services found.">>
       /\ ~cli.all => cli.exit = Some(0) /\ cli.errors = <<>>
       /\ invoked = <<>>

\* deploy --all on a services directory without any service ended with 1
C13_Witness ==
    /\ cli.command = "deploy" /\ cli.all
    /\ fs.base = "dir"
    /\ cli.discovered = Some(<<>>)
    /\ cli.exit = Some(1)

\* C15: within one run of the command line the secret-reference tool is run
\* at most once for each op:// value of the configuration, however many
\* services the run processes.
C15_ReferencesReadOnce ==
    \A i, j \in 1..Len(opReads) : opReads[i] = opReads[j] => i = j

\* the proxmox:container resources of a loadable service, in service order
ContainersOf(name) ==
    SelectSeq(Loaded(name).val[1].resources,
              LAMBDA r : r.type = "proxmox:container")

\* C17: the Pulumi program the deployer runs for a service with n
\* proxmox:container resources makes n container-creation calls, one per
\* resource in service order, and exports "<resource id>_id" for each; the
\* call it makes to create_container is accepted, so no TypeError ends it.
C17_ProgramCreatesEachContainer ==
    \A i \in 1..Len(invoked) :
        (invoked[i].op \in {"preview_service", "deploy_service"}
         /\ invoked[i].stack # None)
        => /\ invoked[i].outcome # "TypeError"
           /\ invoked[i].outcome = "return"
              => /\ Len(invoked[i].creations)
                        = Len(ContainersOf(invoked[i].service))
                 /\ Len(invoked[i].exports)
                        = Len(ContainersOf(invoked[i].service))
                 /\ \A k \in 1..Len(invoked[i].creations) :
                       /\ invoked[i].creations[k].name
                              = ContainersOf(invoked[i].service)[k].id
                       /\ invoked[i].exports[k].name
                              = ContainersOf(invoked[i].service)[k].id \o "_id"

\* C20: each service gets its own stack: operations of the deployer on two
\* distinct service names select different stacks.
C20_OwnStackPerService ==
    \A i, j \in 1..Len(invoked) :
        (invoked[i].service # invoked[j].service
         /\ invoked[i].stack # None /\ invoked[j].stack # None)
        => invoked[i].stack # invoked[j].stack

\* the calls of the deployer, among the first n, that raised
RECURSIVE FailedAmong(_)
FailedAmong(n) ==
    IF n = 0 THEN 0
    ELSE FailedAmong(n - 1) + (IF invoked[n].outcome # "return" THEN 1 ELSE 0)

\* C21: preview --all and deploy --all call the deployer for the discovered
\* services in the sorted order discover_services returned, each service once:
\* the calls made so far are a prefix of that list, the services left are the
\* rest of it, every failure was reported, and the command ends only after
\* the last service was attempted, whatever failed before it.
C21_AllAttemptsEachServiceInOrder ==
    (cli.all /\ cli.command \in {"preview", "deploy"} /\ cli.discovered # None)
    => /\ \A i, j \in 1..Len(cli.discovered[1]) :
             i < j => StrLess(cli.discovered[1][i], cli.discovered[1][j])
       /\ Len(invoked) <= Len(cli.discovered[1])
       /\ \A i \in 1..Len(invoked) : invoked[i].service = cli.discovered[1][i]
       /\ cli.pc = "loop"
          => cli.queue = SubSeq(cli.discovered[1], Len(invoked) + 1,
                                Len(cli.discovered[1]))
       /\ Len(cli.errors) = FailedAmong(Len(invoked))
                            + (IF cli.discovered[1] = <<>> THEN 1 ELSE 0)
       /\ (cli.pc = "done" /\ cli.answer # "n")
          => Len(invoked) = Len(cli.discovered[1])

\* deploy --all went on to the second service after the first one failed
C21_Witness ==
    /\ cli.command = "deploy" /\ cli.all /\ cli.pc = "done"
    /\ Len(invoked) = 2
    /\ invoked[1].service = Name_a /\ invoked[1].outcome = "ServiceParseError"
    /\ invoked[2].service = Name_b1 /\ invoked[2].outcome = "return"
    /\ cli.errors = <<"Error">>

\* the service has no service.yaml, or one that is not a YAML mapping
Unloadable(name) ==
    \/ ~ServiceYamlExists(fs, name)
    \/ fs.entries[name].yaml[1].kind # "dict"

\* the `op read` runs a deployer call makes when every step succeeds: the
\* references of the Proxmox section, then those of the Pulumi section
ReadsOfFullRun ==
    LET entries == <<config.proxmox.host, config.proxmox.api_token,
                     config.pulumi.backend, config.pulumi.aws_access_key_id,
                     config.pulumi.aws_secret_access_key>>
        refs == SelectSeq(entries, LAMBDA e : IsReference(EntryValue(e)))
    IN [i \in 1..Len(refs) |-> <<"op", "read", refs[i][1]>>]

\* the last deployer call of the log
LastCall(log) == log[Len(log)]

\* C24: a deployer call loads the service, resolves the Proxmox credentials,
\* resolves the Pulumi config, selects the stack and runs the stack operation
\* in this order, and a failed step prevents the later ones: for a missing or
\* unparsable service nothing is resolved and no stack is touched; the
\* secrets read are a prefix of Proxmox-then-Pulumi; a call that selected no
\* stack leaves the backend as it was; a call that selected a stack resolved
\* everything before and changes that stack only.
C24_DeployerStepsInOrder ==
    [][Len(invoked') = Len(invoked) + 1
       => /\ Unloadable(LastCall(invoked').service)
             => /\ LastCall(invoked').outcome
                       \in {"ServiceNotFoundError", "ServiceParseError",
                            "AttributeError"}
                /\ LastCall(invoked').reads = <<>>
                /\ configCache' = configCache
                /\ LastCall(invoked').stack = None
          /\ opReads' = opReads \o LastCall(invoked').reads
          /\ Len(LastCall(invoked').reads) <= Len(ReadsOfFullRun)
          /\ LastCall(invoked').reads
                = SubSeq(ReadsOfFullRun, 1, Len(LastCall(invoked').reads))
          /\ LastCall(invoked').outcome = "CredentialsError"
             => LastCall(invoked').stack = None
          /\ LastCall(invoked').stack = None => stacks' = stacks
          /\ LastCall(invoked').stack # None
             => /\ ~Unloadable(LastCall(invoked').service)
                /\ config.file = "ok"
                /\ LastCall(invoked').reads = ReadsOfFullRun
                /\ ReadsOfFullRun # <<>> => tool = "ok"
                /\ LastCall(invoked').stack[1] \in DOMAIN stacks'
                /\ \A s \in DOMAIN stacks' \ {LastCall(invoked').stack[1]} :
                      s \in DOMAIN stacks /\ stacks'[s] = stacks[s]]_vars

\* deploy of a service with an unparsable service.yaml, with a configuration
\* full of secret references: nothing was read and no stack was selected
C24_Witness ==
    /\ cli.command = "deploy"
    /\ Len(invoked) = 1
    /\ invoked[1].outcome = "ServiceParseError"
    /\ config = ReferenceConfig /\ tool = "ok"
    /\ opReads = <<>>
    /\ invoked[1].stack = None

----------------------------------------------------------------------------
(* Claims about the container mapper *)

\* the interfaces the properties declare, in their order
DeclaredInterfaces == mpProps.network_interfaces

\* an IP argument carries the address and gateway of the interface's
\* configuration of that family, and is absent when the interface has none
CarriesFamily(args, family) ==
    /\ args = None <=> family = None
    /\ args # None
       => /\ args[1].address = family[1].address
          /\ args[1].gateway = family[1].gateway

\* C22: the container mapper builds one network-interface argument and one IP
\* config per declared interface, in the interface order: the i-th IP config
\* carries the ipv4 / ipv6 address and gateway of the i-th interface, absent
\* families stay absent; without interfaces the interface list is empty and
\* ip_configs is None.
C22_OneConfigPerInterface ==
    /\ mpResult.op = "build_network_interfaces"
       => /\ Len(mpResult.value) = Len(DeclaredInterfaces)
          /\ \A i \in 1..Len(DeclaredInterfaces) :
                mpResult.value[i].name = DeclaredInterfaces[i][1]
    /\ mpResult.op = "build_initialization"
       => /\ DeclaredInterfaces = <<>> <=> mpResult.value.ip_configs = None
          /\ DeclaredInterfaces # <<>>
             => /\ Len(mpResult.value.ip_configs[1]) = Len(DeclaredInterfaces)
                /\ \A i \in 1..Len(DeclaredInterfaces) :
                      /\ CarriesFamily(mpResult.value.ip_configs[1][i].ipv4,
                                       DeclaredInterfaces[i][2].ipv4)
                      /\ CarriesFamily(mpResult.value.ip_configs[1][i].ipv6,
                                       DeclaredInterfaces[i][2].ipv6)

\* two interfaces, the first without any address, the second with an ipv4
\* address only: the second IP config is the one that carries it
C22_Witness ==
    /\ mpResult.op = "build_initialization"
    /\ Len(DeclaredInterfaces) = 2
    /\ DeclaredInterfaces[1][2].ipv4 = None /\ DeclaredInterfaces[1][2].ipv6 = None
    /\ DeclaredInterfaces[2][2].ipv4 # None /\ DeclaredInterfaces[2][2].ipv6 = None
    /\ mpResult.value.ip_configs[1][1] = [ipv4 |-> None, ipv6 |-> None]
    /\ mpResult.value.ip_configs[1][2].ipv4 # None

----------------------------------------------------------------------------
(* Claims about tags the instance patrol cannot interpret *)

\* the ExpireAt tag of the instance is no timestamp with a UTC offset
Uninterpretable(i) ==
    /\ instances[i].tag # None
    /\ instances[i].tag[1].shape # "iso" \/ instances[i].tag[1].zone = ""

\* C23: in a sweep, an instance whose ExpireAt tag is malformed or has no UTC
\* offset is skipped: the sweep ends normally, the instance is never passed
\* to terminate_instances, and every expired instance of the sweep is.
C23_UninterpretableTagIsSkipped ==
    ptResult.op = "lambda_handler"
    => /\ ptResult.outcome = "return"
       /\ \A k \in 1..Len(ptResult.calls) :
             \A i \in Range(ptResult.calls[k]) : ~Uninterpretable(i)
       /\ \A i \in ExpiredInstances :
             \E k \in 1..Len(ptResult.calls) : i \in Range(ptResult.calls[k])

----------------------------------------------------------------------------
(* Claims about the cached template resolver *)

\* what resolve_template(pattern, credentials, node, storage) returns or
\* raises against the endpoints as they are now
Uncached(pattern, key) ==
    IF list_templates(remote, key).ok
    THEN Select("resolve_template", key, pattern,
                list_templates(remote, key).templates)
    ELSE ListFailed("resolve_template", key, pattern)

CachedCallStep == rtResult'.op = "resolve_template_cached" /\ remote' = remote

\* the keys other than the key of the call keep their cache entries
OtherKeysKept ==
    \A k \in Keys \ {rtResult'.key} :
        /\ k \in DOMAIN cache' <=> k \in DOMAIN cache
        /\ k \in DOMAIN cache => cache'[k] = cache[k]

\* C27: an error of resolve_template_cached leaves the cache consistent: when
\* list_templates fails, no entry is added for the key of the call and the
\* other entries are unchanged, and a call on a key without entry fetches;
\* when the fetch succeeds and no template matches, the listing is cached
\* and only the error is raised.
C27_ErrorLeavesCacheConsistent ==
    [][CachedCallStep
       => /\ OtherKeysKept
          /\ rtResult'.key \notin DOMAIN cache
             => /\ rtResult'.fetched
                /\ calls'[rtResult'.key] = calls[rtResult'.key] + 1
          /\ (rtResult'.outcome # "return"
              /\ rtResult'.error # "No template matching pattern")
             => /\ rtResult'.key \notin DOMAIN cache'
                /\ cache' = cache
          /\ (rtResult'.outcome = "TemplateResolverError"
              /\ rtResult'.error = "No template matching pattern")
             => /\ rtResult'.key \in DOMAIN cache'
                /\ cache'[rtResult'.key] = rtResult'.templates
                /\ rtResult'.fetched
                   => cache'[rtResult'.key]
                         = list_templates(remote, rtResult'.key).templates]_vars

\* a fetch failed twice for one key, which has no entry, while a fetched
\* listing without a match stays cached for another key
C27_Witness ==
    /\ rtResult.op = "resolve_template_cached"
    /\ rtResult.outcome = "TemplateResolverError"
    /\ rtResult.error = "Failed to list templates"
    /\ calls[rtResult.key] = 2
    /\ rtResult.key \notin DOMAIN cache
    /\ \E k \in DOMAIN cache :
          FilterMatches(cache[k], <<"b", "*", "1">>) = <<>>

----------------------------------------------------------------------------
(* Claims about the API token *)

\* the api_token configured: the entry of config.yaml, or what the secret
\* reference in it stands for
ConfiguredToken ==
    IF IsReference(EntryValue(config.proxmox.api_token))
    THEN Strip(Vault(EntryValue(config.proxmox.api_token)))
    ELSE EntryValue(config.proxmox.api_token)

\* the position of the first "!" of the token, and of the first "=" after it
FirstBang(tok) ==
    CHOOSE i \in 1..Len(tok) : tok[i] = "!" /\ \A j \in 1..(i - 1) : tok[j] # "!"
FirstEqualAfterBang(tok) ==
    CHOOSE i \in (FirstBang(tok) + 1)..Len(tok) :
        tok[i] = "=" /\ \A j \in (FirstBang(tok) + 1)..(i - 1) : tok[j] # "="

\* the token has the form user@realm!tokenid=secret
OfTokenForm(tok) ==
    \E i, j \in 1..Len(tok) : i < j /\ tok[i] = "!" /\ tok[j] = "="

\* C26: for a configured api_token of the form user@realm!tokenid=secret,
\* get_proxmox_credentials yields the username "user@realm!tokenid" and the
\* password "secret", split at the first "!" and the first "=" after it, and
\* the token the deployer and the template resolver rebuild as
\* username + "=" + password is the configured api_token.
C26_TokenRoundTrip ==
    (crResult.op = "get_proxmox_credentials"
     /\ config.file = "ok"
     /\ OfTokenForm(ConfiguredToken)
     /\ crResult.outcome # "CredentialsError")
    => /\ crResult.outcome = "return"
       /\ crResult.value[1].username
             = SubSeq(ConfiguredToken, 1,
                      FirstEqualAfterBang(ConfiguredToken) - 1)
       /\ crResult.value[1].password
             = SubSeq(ConfiguredToken,
                      FirstEqualAfterBang(ConfiguredToken) + 1,
                      Len(ConfiguredToken))
       /\ provider_api_token(crResult.value[1]) = ConfiguredToken
       /\ get_auth_header(crResult.value[1])
             = Str_PVEAPIToken \o ConfiguredToken

\* a token whose secret holds another "=": the password keeps it
C26_Witness ==
    /\ crResult.op = "get_proxmox_credentials"
    /\ crResult.outcome = "return"
    /\ config.proxmox.api_token
          = Some(<<"u", "@", "r", "!", "t", "=", "s", "=", "x">>)
    /\ crResult.value[1].username = <<"u", "@", "r", "!", "t">>
    /\ crResult.value[1].password = <<"s", "=", "x">>

====
